---- MODULE Spec2Model ----
(***************************************************************************)
(* A model of py-datastore's composition layer.                            *)
(*                                                                         *)
(*   datastore/core/binarystore.py : Datastore, DictDatastore, Adapter     *)
(*       (get raises KeyError on a missing key, values are byte strings    *)
(*        carried by streams)                                              *)
(*   datastore/basic.py            : Datastore, DictDatastore,             *)
(*       InterfaceMappingDatastore, DatastoreCollection, TieredDatastore,  *)
(*       ShardedDatastore (get returns None on a missing key)              *)
(*                                                                         *)
(* One store is constructed and exercised per behaviour: `sut` names it.   *)
(* Every action is one whole call of a method of that store (or of one of  *)
(* the member stores a collection shares with its caller).                 *)
(***************************************************************************)
EXTENDS Integers, Sequences, FiniteSets, TLC

VARIABLES
    sut,        \* which store the behaviour exercises
    items,      \* binarystore.DictDatastore._items : path -> (key -> bytes)
    kinds,      \* the member stores of the collection: kind of each
    stores,     \* the member stores of the collection: state of each
    shardfn,    \* ShardedDatastore._shardingfn, as a function of the key
    heap,       \* the list objects that hold the members of collections
    colls,      \* the collections constructed: class and the list _stores refers to
    rstream,    \* the ReceiveStream a consumer holds, with its underlying resource
    service,    \* the foreign service an InterfaceMappingDatastore is built over
    inflight,   \* the calls in progress, each suspended between two of its steps
    handles,    \* the streams a store's get has handed out, and to whom
    scursor,    \* the Cursor a sharded query gave its caller, not yet consumed
    last        \* the last call made and what it gave back

vars == <<sut, items, kinds, stores, shardfn, heap, colls, rstream, service, inflight, handles, scursor, last>>

----------------------------------------------------------------------------
(* Bounds of the model *)

NumPaths == 2       \* namespaces of the keys given to the binary store
NumNames == 2       \* key names per namespace
NumVals == 2        \* distinct object values given to the basic stores
NumTiers == 3       \* member stores of the TieredDatastore
NumShards == 3      \* member stores of the ShardedDatastore
NumShardKeys == 3   \* keys given to the ShardedDatastore
MaxOffset == 3      \* largest query offset tried
MaxLimit == 3       \* largest query limit tried
NumColls == 2       \* collections constructed in one behaviour
NumMembers == 2     \* Datastore objects offered to the collections
MaxMembers == 2     \* longest member list tried
NumChunks == 3      \* most chunks a stream's source yields
MaxCloses == 2      \* explicit closes made on one stream
EqTiers == 2        \* member stores of the TieredDatastore over stores defining __eq__

----------------------------------------------------------------------------
(* Keys.  A key is <<path, name>>: key.path is its parent namespace. *)

Paths == 1 .. NumPaths
Keys == ({1} \X (1 .. NumNames)) \cup ((2 .. NumPaths) \X {1})
TierKeys == {1} \X (1 .. NumNames)
ShardKeys == {1} \X (1 .. NumShardKeys)
NoKey == <<0, 0>>

KeyPath(key) == key[1]

(* Values of the basic (object) stores.  None is Python's None, which the  *)
(* basic stores give back for a missing key: it is not a value to store.   *)
None == 0
Values == 1 .. NumVals

(* Values of the binary store are byte strings: sequences of bytes. *)
ByteStrings == {<<>>, <<1>>, <<1, 2>>}
NoBytes == <<-1>>

----------------------------------------------------------------------------
(* Streams (datastore.util.stream): what put accepts and get hands back.   *)

RECURSIVE Concat(_)
Concat(chunks) ==
    IF chunks = <<>> THEN <<>> ELSE Head(chunks) \o Concat(Tail(chunks))

(* The arguments put is called with: a raw buffer, or an iterable of chunks *)
StreamArgs ==
    {[kind |-> "bytes", data |-> b] : b \in ByteStrings}
        \cup {[kind |-> "chunks", data |-> c] : c \in {<<>>, <<<<1>>, <<2>>>>, <<<<>>, <<1>>>>}}

(* The bytes a put argument carries *)
Content(value) == IF value.kind = "bytes" THEN value.data ELSE Concat(value.data)

(* receive_stream_from: one lazy chunk sequence whatever the source was *)
receive_stream_from(value) ==
    IF value.kind = "bytes" THEN <<value.data>> ELSE value.data

(* ReceiveStream.collect: drain the stream into one buffer *)
collect(stream) == Concat(stream)

----------------------------------------------------------------------------
(* Python dicts as functions with a finite domain *)

DictDel(d, k) == [x \in DOMAIN d \ {k} |-> d[x]]
DictSet(d, k, v) == (k :> v) @@ d
EmptyDict == <<>>

----------------------------------------------------------------------------
(* binarystore.DictDatastore.  Every operation gives back                  *)
(* [items: the store afterwards, exc: the exception raised, ...].          *)

(* _collection: the namespace dict of key, created when it is missing *)
BinCollection(its, key) ==
    IF KeyPath(key) \in DOMAIN its THEN its ELSE DictSet(its, KeyPath(key), EmptyDict)

BinDictGet(its, key) ==
    LET its1 == BinCollection(its, key)
        coll == its1[KeyPath(key)]
    IN  IF key \in DOMAIN coll
        THEN [items |-> its1, exc |-> "none", stream |-> receive_stream_from([kind |-> "bytes", data |-> coll[key]])]
        ELSE [items |-> its1, exc |-> "KeyError", stream |-> <<>>]

(* _put that keeps the first chunk of the stream only *)
BinDictPutFirstChunk(its, key, stream) ==
    LET its1 == BinCollection(its, key)
    IN  [items |-> DictSet(its1, KeyPath(key),
                     DictSet(its1[KeyPath(key)], key, IF stream = <<>> THEN <<>> ELSE Head(stream))),
         exc |-> "none"]

BinDictPutImpl(its, key, stream) ==
    LET its1 == BinCollection(its, key)
    IN  [items |-> DictSet(its1, KeyPath(key), DictSet(its1[KeyPath(key)], key, collect(stream))),
         exc |-> "none"]

(* Datastore.put: normalise the value to a stream, then _put *)
BinDictPut(its, key, value) == BinDictPutImpl(its, key, receive_stream_from(value))

(* delete that forgets the del statement *)
BinDictDeleteKeeps(its, key) ==
    LET its1 == BinCollection(its, key)
    IN  [items |-> its1, exc |-> IF key \in DOMAIN its1[KeyPath(key)] THEN "none" ELSE "KeyError"]

BinDictDelete(its, key) ==
    LET its1 == BinCollection(its, key)
        coll == its1[KeyPath(key)]
    IN  IF key \notin DOMAIN coll
        THEN [items |-> its1, exc |-> "KeyError"]
        ELSE LET its2 == DictSet(its1, KeyPath(key), DictDel(coll, key))
             IN  IF Cardinality(DOMAIN its2[KeyPath(key)]) = 0
                 THEN [items |-> DictDel(its2, KeyPath(key)), exc |-> "none"]
                 ELSE [items |-> its2, exc |-> "none"]

BinDictContains(its, key) ==
    LET its1 == BinCollection(its, key)
    IN  [items |-> its1, exc |-> "none", flag |-> key \in DOMAIN its1[KeyPath(key)]]

(* __len__ *)
RECURSIVE SumLens(_, _)
SumLens(its, ps) ==
    IF ps = {} THEN 0
    ELSE LET p == CHOOSE x \in ps : TRUE
         IN  Cardinality(DOMAIN its[p]) + SumLens(its, ps \ {p})

(* __len__ as the number of namespaces *)
BinDictLenNamespaces(its) == Cardinality(DOMAIN its)

BinDictLen(its) == SumLens(its, DOMAIN its)

----------------------------------------------------------------------------
(* binarystore.Adapter over a DictDatastore: every call goes to the child *)

AdapterGet(its, key) == BinDictGet(its, key)
AdapterPutImpl(its, key, stream) == BinDictPut(its, key, [kind |-> "chunks", data |-> stream])
AdapterPut(its, key, value) == AdapterPutImpl(its, key, receive_stream_from(value))
AdapterDelete(its, key) == BinDictDelete(its, key)
AdapterContains(its, key) == BinDictContains(its, key)

----------------------------------------------------------------------------
(* The calls of a behaviour on the binary store, direct or through the     *)
(* adapter.                                                                *)

BinStores == {"dict", "adapter"}

NoLimit == -1
NoQuery == [key |-> 0, offset |-> 0, limit |-> NoLimit, order |-> FALSE]

(* What is offered to a collection as a member: Datastore objects, told    *)
(* apart by identity, and an object that is not a Datastore.               *)
NotAStore == 0
MemberIds == 1 .. NumMembers
Candidates == MemberIds \cup {NotAStore}

NoCall == [op |-> "none", key |-> NoKey, exc |-> "none", bytes |-> NoBytes,
           val |-> None, flag |-> FALSE, hit |-> 0, at |-> 0, calls |-> <<>>,
           query |-> NoQuery, out |-> <<>>, trace |-> <<>>,
           coll |-> 0, store |-> NotAStore, index |-> 0, given |-> <<>>,
           qafter |-> NoQuery, dirty |-> FALSE]

BinGet(key) ==
    /\ sut \in BinStores
    /\ LET r == IF sut = "dict" THEN BinDictGet(items, key) ELSE AdapterGet(items, key)
       IN  /\ items' = r.items
           /\ last' = [NoCall EXCEPT !.op = "get", !.key = key, !.exc = r.exc,
                          !.bytes = IF r.exc = "none" THEN collect(r.stream) ELSE NoBytes]
    /\ UNCHANGED <<sut, kinds, stores, shardfn, heap, colls, rstream, service, inflight, handles, scursor>>

BinPut(key, value) ==
    /\ sut \in BinStores
    /\ LET r == IF sut = "dict" THEN BinDictPut(items, key, value) ELSE AdapterPut(items, key, value)
       IN  /\ items' = r.items
           /\ last' = [NoCall EXCEPT !.op = "put", !.key = key, !.exc = r.exc,
                          !.bytes = Content(value)]
    /\ UNCHANGED <<sut, kinds, stores, shardfn, heap, colls, rstream, service, inflight, handles, scursor>>

BinDelete(key) ==
    /\ sut \in BinStores
    /\ LET r == IF sut = "dict" THEN BinDictDelete(items, key) ELSE AdapterDelete(items, key)
       IN  /\ items' = r.items
           /\ last' = [NoCall EXCEPT !.op = "delete", !.key = key, !.exc = r.exc]
    /\ UNCHANGED <<sut, kinds, stores, shardfn, heap, colls, rstream, service, inflight, handles, scursor>>

BinContains(key) ==
    /\ sut \in BinStores
    /\ LET r == IF sut = "dict" THEN BinDictContains(items, key) ELSE AdapterContains(items, key)
       IN  /\ items' = r.items
           /\ last' = [NoCall EXCEPT !.op = "contains", !.key = key, !.exc = r.exc, !.flag = r.flag]
    /\ UNCHANGED <<sut, kinds, stores, shardfn, heap, colls, rstream, service, inflight, handles, scursor>>

----------------------------------------------------------------------------
(* Python OrderedDicts as sequences of <<key, value>> in insertion order *)

OdHas(od, k) == \E i \in 1 .. Len(od) : od[i][1] = k
OdIndex(od, k) == CHOOSE i \in 1 .. Len(od) : od[i][1] = k
OdGet(od, k) == od[OdIndex(od, k)][2]
OdSet(od, k, v) ==
    IF OdHas(od, k) THEN [od EXCEPT ![OdIndex(od, k)] = <<k, v>>] ELSE Append(od, <<k, v>>)
OdDel(od, k) ==
    LET i == OdIndex(od, k)
    IN  SubSeq(od, 1, i - 1) \o SubSeq(od, i + 1, Len(od))
OdValues(od) == [i \in 1 .. Len(od) |-> od[i][2]]

----------------------------------------------------------------------------
(* basic.DictDatastore: _items is path -> OrderedDict.  Every operation    *)
(* gives back [st: the store afterwards, exc: the exception raised, ...].  *)

NewDict == EmptyDict

(* _collection: the namespace dict of key, created when it is missing *)
DictCollection(st, key) ==
    IF KeyPath(key) \in DOMAIN st THEN st ELSE DictSet(st, KeyPath(key), <<>>)

DictGet(st, key) ==
    LET st1 == DictCollection(st, key)
        od == st1[KeyPath(key)]
    IN  [st |-> st1, exc |-> "none", val |-> IF OdHas(od, key) THEN OdGet(od, key) ELSE None]

DictDelete(st, key) ==
    LET st1 == DictCollection(st, key)
        od == st1[KeyPath(key)]
    IN  IF ~OdHas(od, key)
        THEN [st |-> st1, exc |-> "none"]
        ELSE IF Len(OdDel(od, key)) = 0
             THEN [st |-> DictDel(st1, KeyPath(key)), exc |-> "none"]
             ELSE [st |-> DictSet(st1, KeyPath(key), OdDel(od, key)), exc |-> "none"]

DictPut(st, key, value) ==
    IF value = None
    THEN DictDelete(st, key)
    ELSE LET st1 == DictCollection(st, key)
         IN  [st |-> DictSet(st1, KeyPath(key), OdSet(st1[KeyPath(key)], key, value)),
              exc |-> "none"]

DictContains(st, key) ==
    LET st1 == DictCollection(st, key)
    IN  [st |-> st1, exc |-> "none", flag |-> OdHas(st1[KeyPath(key)], key)]

----------------------------------------------------------------------------
(* basic.InterfaceMappingDatastore over a foreign mapping service whose    *)
(* operations are get (None when the key is missing), __setitem__ and      *)
(* __delitem__ (KeyError when the key is missing).  The service may fail:  *)
(* `broken` says that it raises on this call.                              *)

KeyBase == 10
ServiceKey(key) == key[1] * KeyBase + key[2]

NewService == EmptyDict

MappedGet(st, key, broken) ==
    LET sk == ServiceKey(key)
    IN  IF broken THEN [st |-> st, exc |-> "Internal", val |-> None]
        ELSE [st |-> st, exc |-> "none", val |-> IF sk \in DOMAIN st THEN st[sk] ELSE None]

MappedPut(st, key, value, broken) ==
    LET sk == ServiceKey(key)
    IN  IF broken THEN [st |-> st, exc |-> "Internal"]
        ELSE [st |-> DictSet(st, sk, value), exc |-> "none"]

MappedDelete(st, key, broken) ==
    LET sk == ServiceKey(key)
    IN  IF broken THEN [st |-> st, exc |-> "Internal"]
        ELSE IF sk \in DOMAIN st THEN [st |-> DictDel(st, sk), exc |-> "none"]
        ELSE [st |-> st, exc |-> "KeyError"]

(* contains that is true whenever get raised nothing *)
MappedContainsNotRaised(st, key, broken) ==
    LET r == MappedGet(st, key, broken)
    IN  [st |-> r.st, exc |-> r.exc, flag |-> r.exc = "none"]

(* Datastore.contains, not overridden: get(key) is not None *)
MappedContains(st, key, broken) ==
    LET r == MappedGet(st, key, broken)
    IN  [st |-> r.st, exc |-> r.exc, flag |-> r.exc = "none" /\ r.val # None]

----------------------------------------------------------------------------
(* A member store of a collection, by kind *)

Kinds == {"dict", "mapped"}

(* A subclass of DictDatastore that defines __eq__: its instances compare  *)
(* equal to one another                                                    *)
EqKind == "eqdict"

StoreGet(kind, st, key, broken) ==
    IF kind # "mapped" THEN DictGet(st, key) ELSE MappedGet(st, key, broken)
StorePut(kind, st, key, value, broken) ==
    IF kind # "mapped" THEN DictPut(st, key, value) ELSE MappedPut(st, key, value, broken)
StoreDelete(kind, st, key, broken) ==
    IF kind # "mapped" THEN DictDelete(st, key) ELSE MappedDelete(st, key, broken)
StoreContains(kind, st, key, broken) ==
    IF kind # "mapped" THEN DictContains(st, key) ELSE MappedContains(st, key, broken)

(* What an observer of one member sees: the value under key, or None *)
Holds(kind, st, key) ==
    IF kind # "mapped"
    THEN IF KeyPath(key) \in DOMAIN st /\ OdHas(st[KeyPath(key)], key)
         THEN OdGet(st[KeyPath(key)], key) ELSE None
    ELSE IF ServiceKey(key) \in DOMAIN st THEN st[ServiceKey(key)] ELSE None

(* A fault: the service behind member `at` raises when `op` is called on it *)
NoFault == [at |-> 0, op |-> "none"]
Faults(ops) == {NoFault} \cup
    {[at |-> t, op |-> o] : t \in {i \in 1 .. Len(kinds) : kinds[i] = "mapped"}, o \in ops}
Broken(fault, i, op) == fault.at = i /\ fault.op = op

----------------------------------------------------------------------------
(* basic.TieredDatastore.  ss is the sequence of the members' states, ks   *)
(* their kinds; calls is the log of the calls made on the members.         *)

(* the first loop of get without its break: the last value found wins *)
RECURSIVE TieredScanNoBreak(_, _, _, _, _, _)
TieredScanNoBreak(ks, ss, key, i, fault, calls) ==
    IF i > Len(ss)
    THEN [stores |-> ss, exc |-> "none", val |-> None, hit |-> 0, at |-> 0, calls |-> calls]
    ELSE LET r == StoreGet(ks[i], ss[i], key, Broken(fault, i, "get"))
             ss1 == [ss EXCEPT ![i] = r.st]
             calls1 == Append(calls, <<i, "get">>)
             rest == TieredScanNoBreak(ks, ss1, key, i + 1, fault, calls1)
         IN  IF r.exc # "none"
             THEN [stores |-> ss1, exc |-> r.exc, val |-> None, hit |-> 0, at |-> i, calls |-> calls1]
             ELSE IF r.val # None /\ rest.exc = "none" /\ rest.hit = 0
             THEN [rest EXCEPT !.val = r.val, !.hit = i]
             ELSE rest

(* the first loop of get taking a tier's failure for a miss *)
RECURSIVE TieredScanSkipsFailure(_, _, _, _, _, _)
TieredScanSkipsFailure(ks, ss, key, i, fault, calls) ==
    IF i > Len(ss)
    THEN [stores |-> ss, exc |-> "none", val |-> None, hit |-> 0, at |-> 0, calls |-> calls]
    ELSE LET r == StoreGet(ks[i], ss[i], key, Broken(fault, i, "get"))
             ss1 == [ss EXCEPT ![i] = r.st]
             calls1 == Append(calls, <<i, "get">>)
         IN  IF r.exc = "none" /\ r.val # None
             THEN [stores |-> ss1, exc |-> "none", val |-> r.val, hit |-> i, at |-> 0, calls |-> calls1]
             ELSE TieredScanSkipsFailure(ks, ss1, key, i + 1, fault, calls1)

(* get, first loop: value = store.get(key) until a value is not None *)
RECURSIVE TieredScan(_, _, _, _, _, _)
TieredScan(ks, ss, key, i, fault, calls) ==
    IF i > Len(ss)
    THEN [stores |-> ss, exc |-> "none", val |-> None, hit |-> 0, at |-> 0, calls |-> calls]
    ELSE LET r == StoreGet(ks[i], ss[i], key, Broken(fault, i, "get"))
             ss1 == [ss EXCEPT ![i] = r.st]
             calls1 == Append(calls, <<i, "get">>)
         IN  IF r.exc # "none"
             THEN [stores |-> ss1, exc |-> r.exc, val |-> None, hit |-> 0, at |-> i, calls |-> calls1]
             ELSE IF r.val # None
             THEN [stores |-> ss1, exc |-> "none", val |-> r.val, hit |-> i, at |-> 0, calls |-> calls1]
             ELSE TieredScan(ks, ss1, key, i + 1, fault, calls1)

(* `store == store2`, store being the member that gave the value: members  *)
(* of a class that defines no __eq__ are equal when they are the same      *)
(* member; those of a class that defines it are equal to one another.      *)
SameStoreEarly(ks, i, j) == i <= j + 1
SameStore(ks, i, j) == i = j \/ (ks[i] = EqKind /\ ks[j] = EqKind)

(* get, second loop: store2.put(key, value) until store == store2 *)
RECURSIVE TieredPromote(_, _, _, _, _, _, _, _)
TieredPromote(ks, ss, key, value, hit, j, fault, calls) ==
    IF j > Len(ss) \/ SameStore(ks, hit, j)
    THEN [stores |-> ss, exc |-> "none", val |-> value, hit |-> hit, at |-> 0, calls |-> calls]
    ELSE LET r == StorePut(ks[j], ss[j], key, value, Broken(fault, j, "put"))
             ss1 == [ss EXCEPT ![j] = r.st]
             calls1 == Append(calls, <<j, "put">>)
         IN  IF r.exc # "none"
             THEN [stores |-> ss1, exc |-> r.exc, val |-> None, hit |-> hit, at |-> j, calls |-> calls1]
             ELSE TieredPromote(ks, ss1, key, value, hit, j + 1, fault, calls1)

TieredGetImpl(ks, ss, key, fault) ==
    LET s == TieredScan(ks, ss, key, 1, fault, <<>>)
    IN  IF s.exc # "none" \/ s.val = None
        THEN s
        ELSE TieredPromote(ks, s.stores, key, s.val, s.hit, 1, fault, s.calls)

(* put that writes the first store only *)
TieredPutFirstOnly(ks, ss, key, value, i, fault, calls) ==
    IF i > Len(ss)
    THEN [stores |-> ss, exc |-> "none", at |-> 0, calls |-> calls]
    ELSE LET r == StorePut(ks[i], ss[i], key, value, Broken(fault, i, "put"))
         IN  [stores |-> [ss EXCEPT ![i] = r.st], exc |-> r.exc,
              at |-> IF r.exc # "none" THEN i ELSE 0, calls |-> Append(calls, <<i, "put">>)]

(* put that goes on to the next store after a store has failed *)
RECURSIVE TieredPutContinue(_, _, _, _, _, _, _)
TieredPutContinue(ks, ss, key, value, i, fault, calls) ==
    IF i > Len(ss)
    THEN [stores |-> ss, exc |-> "none", at |-> 0, calls |-> calls]
    ELSE LET r == StorePut(ks[i], ss[i], key, value, Broken(fault, i, "put"))
             ss1 == [ss EXCEPT ![i] = r.st]
             calls1 == Append(calls, <<i, "put">>)
             rest == TieredPutContinue(ks, ss1, key, value, i + 1, fault, calls1)
         IN  IF r.exc # "none"
             THEN [rest EXCEPT !.exc = r.exc, !.at = i]
             ELSE rest

RECURSIVE TieredPutImpl(_, _, _, _, _, _, _)
TieredPutImpl(ks, ss, key, value, i, fault, calls) ==
    IF i > Len(ss)
    THEN [stores |-> ss, exc |-> "none", at |-> 0, calls |-> calls]
    ELSE LET r == StorePut(ks[i], ss[i], key, value, Broken(fault, i, "put"))
             ss1 == [ss EXCEPT ![i] = r.st]
             calls1 == Append(calls, <<i, "put">>)
         IN  IF r.exc # "none"
             THEN [stores |-> ss1, exc |-> r.exc, at |-> i, calls |-> calls1]
             ELSE TieredPutImpl(ks, ss1, key, value, i + 1, fault, calls1)

(* delete that removes the key from the first store only *)
TieredDeleteFirstOnly(ks, ss, key, i, fault, calls) ==
    IF i > Len(ss)
    THEN [stores |-> ss, exc |-> "none", at |-> 0, calls |-> calls]
    ELSE LET r == StoreDelete(ks[i], ss[i], key, Broken(fault, i, "delete"))
         IN  [stores |-> [ss EXCEPT ![i] = r.st], exc |-> r.exc,
              at |-> IF r.exc # "none" THEN i ELSE 0, calls |-> Append(calls, <<i, "delete">>)]

RECURSIVE TieredDeleteImpl(_, _, _, _, _, _)
TieredDeleteImpl(ks, ss, key, i, fault, calls) ==
    IF i > Len(ss)
    THEN [stores |-> ss, exc |-> "none", at |-> 0, calls |-> calls]
    ELSE LET r == StoreDelete(ks[i], ss[i], key, Broken(fault, i, "delete"))
             ss1 == [ss EXCEPT ![i] = r.st]
             calls1 == Append(calls, <<i, "delete">>)
         IN  IF r.exc # "none"
             THEN [stores |-> ss1, exc |-> r.exc, at |-> i, calls |-> calls1]
             ELSE TieredDeleteImpl(ks, ss1, key, i + 1, fault, calls1)

(* contains as inherited from Datastore: get(key) is not None, promoting *)
TieredContainsViaGet(ks, ss, key, i, fault, calls) ==
    LET r == TieredGetImpl(ks, ss, key, fault)
    IN  [stores |-> r.stores, exc |-> r.exc, flag |-> r.val # None, at |-> r.at,
         calls |-> r.calls]

RECURSIVE TieredContainsImpl(_, _, _, _, _, _)
TieredContainsImpl(ks, ss, key, i, fault, calls) ==
    IF i > Len(ss)
    THEN [stores |-> ss, exc |-> "none", flag |-> FALSE, at |-> 0, calls |-> calls]
    ELSE LET r == StoreContains(ks[i], ss[i], key, Broken(fault, i, "get"))
             ss1 == [ss EXCEPT ![i] = r.st]
             calls1 == Append(calls, <<i, "contains">>)
         IN  IF r.exc # "none"
             THEN [stores |-> ss1, exc |-> r.exc, flag |-> FALSE, at |-> i, calls |-> calls1]
             ELSE IF r.flag
             THEN [stores |-> ss1, exc |-> "none", flag |-> TRUE, at |-> 0, calls |-> calls1]
             ELSE TieredContainsImpl(ks, ss1, key, i + 1, fault, calls1)

----------------------------------------------------------------------------
(* The calls of a behaviour on the tiered store and on its members *)

TieredGet(key, fault) ==
    /\ sut \in {"tiered", "eqtiered"}
    /\ LET r == TieredGetImpl(kinds, stores, key, fault)
       IN  /\ stores' = r.stores
           /\ last' = [NoCall EXCEPT !.op = "get", !.key = key, !.exc = r.exc,
                          !.val = r.val, !.hit = r.hit, !.at = r.at, !.calls = r.calls]
    /\ UNCHANGED <<sut, items, kinds, shardfn, heap, colls, rstream, service, inflight, handles, scursor>>

TieredPut(key, value, fault) ==
    /\ sut = "tiered"
    /\ LET r == TieredPutImpl(kinds, stores, key, value, 1, fault, <<>>)
       IN  /\ stores' = r.stores
           /\ last' = [NoCall EXCEPT !.op = "put", !.key = key, !.exc = r.exc,
                          !.val = value, !.at = r.at, !.calls = r.calls]
    /\ UNCHANGED <<sut, items, kinds, shardfn, heap, colls, rstream, service, inflight, handles, scursor>>

TieredDelete(key, fault) ==
    /\ sut = "tiered"
    /\ LET r == TieredDeleteImpl(kinds, stores, key, 1, fault, <<>>)
       IN  /\ stores' = r.stores
           /\ last' = [NoCall EXCEPT !.op = "delete", !.key = key, !.exc = r.exc,
                          !.at = r.at, !.calls = r.calls]
    /\ UNCHANGED <<sut, items, kinds, shardfn, heap, colls, rstream, service, inflight, handles, scursor>>

TieredContains(key, fault) ==
    /\ sut = "tiered"
    /\ LET r == TieredContainsImpl(kinds, stores, key, 1, fault, <<>>)
       IN  /\ stores' = r.stores
           /\ last' = [NoCall EXCEPT !.op = "contains", !.key = key, !.exc = r.exc,
                          !.flag = r.flag, !.at = r.at, !.calls = r.calls]
    /\ UNCHANGED <<sut, items, kinds, shardfn, heap, colls, rstream, service, inflight, handles, scursor>>

(* The caller keeps its references to the members and may use them *)
MemberPut(i, key, value) ==
    /\ sut \in {"tiered", "shim", "eqtiered"}
    /\ i \in 1 .. Len(stores)
    /\ LET r == StorePut(kinds[i], stores[i], key, value, FALSE)
       IN  stores' = [stores EXCEPT ![i] = r.st]
    /\ last' = [NoCall EXCEPT !.op = "member"]
    /\ UNCHANGED <<sut, items, kinds, shardfn, heap, colls, rstream, service, inflight, handles, scursor>>

MemberDelete(i, key) ==
    /\ sut \in {"tiered", "shim", "eqtiered"}
    /\ i \in 1 .. Len(stores)
    /\ LET r == StoreDelete(kinds[i], stores[i], key, FALSE)
       IN  stores' = [stores EXCEPT ![i] = r.st]
    /\ last' = [NoCall EXCEPT !.op = "member"]
    /\ UNCHANGED <<sut, items, kinds, shardfn, heap, colls, rstream, service, inflight, handles, scursor>>

NewStore(kind) == IF kind # "mapped" THEN NewDict ELSE NewService

(* The tiers a behaviour is constructed with: DictDatastores, at most one  *)
(* of them replaced by a mapped foreign service.                           *)
TierKinds ==
    {ks \in [1 .. NumTiers -> Kinds] : Cardinality({i \in 1 .. NumTiers : ks[i] = "mapped"}) <= 1}

----------------------------------------------------------------------------
(* Query and Cursor (datastore.query).  A query is                         *)
(* [key: the namespace, offset, limit (NoLimit when unset), order: whether *)
(* a sort key is given].  Items are ordered by value when sorted.          *)

Min(a, b) == IF a <= b THEN a ELSE b
Max(a, b) == IF a >= b THEN a ELSE b

RECURSIVE Insert(_, _)
Insert(x, sorted) ==
    IF sorted = <<>> THEN <<x>>
    ELSE IF x <= Head(sorted) THEN <<x>> \o sorted
    ELSE <<Head(sorted)>> \o Insert(x, Tail(sorted))

RECURSIVE Sorted(_)
Sorted(seq) == IF seq = <<>> THEN <<>> ELSE Insert(Head(seq), Sorted(Tail(seq)))

(* Cursor.apply_order *)
ApplyOrder(query, seq) == IF query.order THEN Sorted(seq) ELSE seq

(* Query.__call__(iterable), consumed to its end: order, offset, limit;    *)
(* skipped and returned are the cursor's counters.                         *)
QueryCall(query, seq) ==
    LET ordered == ApplyOrder(query, seq)
        skipped == Min(query.offset, Len(ordered))
        rest == SubSeq(ordered, skipped + 1, Len(ordered))
        out == IF query.limit = NoLimit THEN rest
               ELSE SubSeq(rest, 1, Min(query.limit, Len(rest)))
    IN  [out |-> out, skipped |-> skipped, returned |-> Len(out)]

(* basic.DictDatastore.query *)
DictQuery(st, query) ==
    IF query.key \in DOMAIN st THEN QueryCall(query, OdValues(st[query.key]))
    ELSE QueryCall(query, <<>>)

(* query of a member: InterfaceMappingDatastore inherits Datastore.query,  *)
(* which raises NotImplementedError                                        *)
StoreQuery(kind, st, query) ==
    IF kind # "mapped" THEN [exc |-> "none", cursor |-> DictQuery(st, query)]
    ELSE [exc |-> "NotImplemented", cursor |-> QueryCall(query, <<>>)]

Queries ==
    [key : {1}, offset : 0 .. MaxOffset, limit : {NoLimit} \cup (1 .. MaxLimit), order : BOOLEAN]

(* binarystore.DictDatastore.query: the query applied to the values of the *)
(* namespace when _items has it, to nothing otherwise; _items is only read *)
BinDictQuery(its, query) ==
    LET n == IF query.key \in DOMAIN its THEN Cardinality(DOMAIN its[query.key]) ELSE 0
    IN  [items |-> its, exc |-> "none", returned |-> QueryCall(query, [i \in 1 .. n |-> i]).returned]

AdapterQuery(its, query) == BinDictQuery(its, query)

(* The queries given to the binary store: a whole namespace *)
BinQueries == [key : Paths, offset : {0}, limit : {NoLimit}, order : {FALSE}]

BinQuery(query) ==
    /\ sut \in BinStores
    /\ LET r == IF sut = "dict" THEN BinDictQuery(items, query) ELSE AdapterQuery(items, query)
       IN  /\ items' = r.items
           /\ last' = [NoCall EXCEPT !.op = "query", !.exc = r.exc, !.query = query]
    /\ UNCHANGED <<sut, kinds, stores, shardfn, heap, colls, rstream, service, inflight, handles, scursor>>

----------------------------------------------------------------------------
(* basic.ShardedDatastore *)

(* shard(key): the index of the member, counted from 1 here *)
Shard(fn, ss, key) == (fn[key] % Len(ss)) + 1

(* get on the next shard *)
ShardedGetNextShard(fn, ks, ss, key, fault) ==
    LET i == (Shard(fn, ss, key) % Len(ss)) + 1
        r == StoreGet(ks[i], ss[i], key, Broken(fault, i, "get"))
    IN  [stores |-> [ss EXCEPT ![i] = r.st], exc |-> r.exc, val |-> r.val, at |-> i]

ShardedGetImpl(fn, ks, ss, key, fault) ==
    LET i == Shard(fn, ss, key)
        r == StoreGet(ks[i], ss[i], key, Broken(fault, i, "get"))
    IN  [stores |-> [ss EXCEPT ![i] = r.st], exc |-> r.exc, val |-> r.val, at |-> i]

(* put on the first shard whatever the key *)
ShardedPutFirstShard(fn, ks, ss, key, value, fault) ==
    LET r == StorePut(ks[1], ss[1], key, value, Broken(fault, 1, "put"))
    IN  [stores |-> [ss EXCEPT ![1] = r.st], exc |-> r.exc, at |-> 1]

ShardedPutImpl(fn, ks, ss, key, value, fault) ==
    LET i == Shard(fn, ss, key)
        r == StorePut(ks[i], ss[i], key, value, Broken(fault, i, "put"))
    IN  [stores |-> [ss EXCEPT ![i] = r.st], exc |-> r.exc, at |-> i]

ShardedDeleteImpl(fn, ks, ss, key, fault) ==
    LET i == Shard(fn, ss, key)
        r == StoreDelete(ks[i], ss[i], key, Broken(fault, i, "delete"))
    IN  [stores |-> [ss EXCEPT ![i] = r.st], exc |-> r.exc, at |-> i]

ShardedContainsImpl(fn, ks, ss, key, fault) ==
    LET i == Shard(fn, ss, key)
        r == StoreContains(ks[i], ss[i], key, Broken(fault, i, "get"))
    IN  [stores |-> [ss EXCEPT ![i] = r.st], exc |-> r.exc, flag |-> r.flag, at |-> i]

(* `if shard_query.limit:` is false for None and for 0 *)
Truthy(limit) == limit # NoLimit /\ limit # 0

(* The running query after a shard: its offset less what the shard's cursor *)
(* skipped, its limit less what the cursor returned, neither below zero.   *)
NextOffsetKept(offset, skipped) == offset
NextOffset(offset, skipped) == Max(offset - skipped, 0)
NextLimitKept(limit, returned) == limit
NextLimit(limit, returned) == Max(limit - returned, 0)

(* shard_query = query, with no copy made *)
ShardQueryAlias(objs, ref) == [objs |-> objs, ref |-> ref]

(* shard_query = query.copy(): objs are the Query objects there are, ref    *)
(* the one the caller gave; the copy is a new object with the same fields   *)
ShardQueryCopy(objs, ref) == [objs |-> Append(objs, objs[ref]), ref |-> Len(objs) + 1]

(* The Cursor that query returns, with the generator behind it             *)
(* (basic.py:386-408).  state: "none" when the caller holds no cursor,     *)
(* "new" before the generator has run, "open" while it is suspended at its *)
(* yield inside shard i, "done" when it has returned or raised; query: the *)
(* query as given; objs, ref: the Query objects and the one the generator  *)
(* updates; buf: the items of shard i's cursor not yet yielded; out: the   *)
(* items yielded so far; trace: the shard queries issued so far, each with *)
(* the counters of its cursor.  dirty is a history: whether a put or a      *)
(* delete was made on the store since query returned.                      *)
NoCursor == [state |-> "none", query |-> NoQuery, objs |-> <<>>, ref |-> 0, i |-> 0,
             buf |-> <<>>, out |-> <<>>, trace |-> <<>>, exc |-> "none", dirty |-> FALSE]

NewCursor(query) ==
    [NoCursor EXCEPT !.state = "new", !.query = query, !.objs = <<query>>, !.ref = 1]

(* the update of the running query that never breaks *)
AfterShardNoBreak(sq, skipped, returned) ==
    [sq |-> IF Truthy(sq.limit)
            THEN [sq EXCEPT !.offset = NextOffset(sq.offset, skipped),
                            !.limit = NextLimit(sq.limit, returned)]
            ELSE [sq EXCEPT !.offset = NextOffset(sq.offset, skipped)],
     stop |-> FALSE]

(* After a shard's cursor is exhausted: the running query is updated by    *)
(* the cursor's counters, and the loop breaks at a limit used up           *)
AfterShard(sq, skipped, returned) ==
    [sq |-> IF Truthy(sq.limit)
            THEN [sq EXCEPT !.offset = NextOffset(sq.offset, skipped),
                            !.limit = NextLimit(sq.limit, returned)]
            ELSE [sq EXCEPT !.offset = NextOffset(sq.offset, skipped)],
     stop |-> Truthy(sq.limit) /\ NextLimit(sq.limit, returned) <= 0]

(* One next() on the generator: it runs from where it is suspended to its  *)
(* next yield, or to its end.  A shard is queried on the members as they   *)
(* are when the generator reaches it.                                      *)
RECURSIVE GenNext(_, _, _)
RECURSIVE GenQueryShard(_, _, _, _)
GenQueryShard(ks, ss, c, i) ==
    IF i > Len(ss)
    THEN [c |-> [c EXCEPT !.state = "done", !.buf = <<>>], item |-> None]
    ELSE LET q == StoreQuery(ks[i], ss[i], c.objs[c.ref])
             t == Append(c.trace, [shard |-> i, offset |-> c.objs[c.ref].offset,
                                   limit |-> c.objs[c.ref].limit,
                                   skipped |-> q.cursor.skipped, returned |-> 0])
         IN  IF q.exc # "none"
             THEN [c |-> [c EXCEPT !.state = "done", !.exc = q.exc, !.i = i, !.trace = t,
                                   !.buf = <<>>],
                   item |-> None]
             ELSE GenNext(ks, ss, [c EXCEPT !.state = "open", !.i = i, !.trace = t,
                                            !.buf = q.cursor.out])

GenNext(ks, ss, c) ==
    IF c.state = "new"
    THEN LET cp == ShardQueryCopy(c.objs, c.ref)
         IN  GenQueryShard(ks, ss, [c EXCEPT !.objs = cp.objs, !.ref = cp.ref], 1)
    ELSE IF c.buf # <<>>
    THEN [c |-> [c EXCEPT !.buf = Tail(@), !.out = Append(@, Head(c.buf)),
                          !.trace[Len(c.trace)].returned = @ + 1],
          item |-> Head(c.buf)]
    ELSE LET a == AfterShard(c.objs[c.ref], c.trace[Len(c.trace)].skipped,
                             c.trace[Len(c.trace)].returned)
         IN  IF a.stop
             THEN [c |-> [c EXCEPT !.state = "done", !.objs[c.ref] = a.sq], item |-> None]
             ELSE GenQueryShard(ks, ss, [c EXCEPT !.objs[c.ref] = a.sq], c.i + 1)

(* The generator consumed to its end on members that stay as they are *)
RECURSIVE Drain(_, _, _)
Drain(ks, ss, c) == IF c.state = "done" THEN c ELSE Drain(ks, ss, GenNext(ks, ss, c).c)

(* sorted(generator): what apply_order does to the cursor's iterable *)
Materialized(d) == [d EXCEPT !.out = IF d.exc = "none" THEN Sorted(d.out) ELSE <<>>]

(* query: a Cursor over the generator, which has not run yet; with an      *)
(* order, apply_order sorts the generator's items, which consumes it       *)
(* inside query, and what it raises is raised by query                     *)
ShardedQueryImpl(ks, ss, query) ==
    IF query.order THEN Materialized(Drain(ks, ss, NewCursor(query)))
    ELSE NewCursor(query)

(* What the caller has when the cursor is exhausted *)
QueryDone(c) ==
    [NoCall EXCEPT !.op = "query", !.exc = c.exc, !.query = c.query, !.out = c.out,
                   !.trace = c.trace, !.qafter = c.objs[1], !.dirty = c.dirty]

(* A call on the store while the caller holds a cursor *)
Touched(c, write) ==
    IF c.state = "none" THEN c ELSE [c EXCEPT !.dirty = @ \/ write]

----------------------------------------------------------------------------
(* The calls of a behaviour on the sharded store *)

ShardedGet(key, fault) ==
    /\ sut = "sharded"
    /\ scursor' = Touched(scursor, FALSE)
    /\ LET r == ShardedGetImpl(shardfn, kinds, stores, key, fault)
       IN  /\ stores' = r.stores
           /\ last' = [NoCall EXCEPT !.op = "get", !.key = key, !.exc = r.exc,
                          !.val = r.val, !.at = r.at]
    /\ UNCHANGED <<sut, items, kinds, shardfn, heap, colls, rstream, service, inflight, handles>>

ShardedPut(key, value, fault) ==
    /\ sut = "sharded"
    /\ scursor' = Touched(scursor, TRUE)
    /\ LET r == ShardedPutImpl(shardfn, kinds, stores, key, value, fault)
       IN  /\ stores' = r.stores
           /\ last' = [NoCall EXCEPT !.op = "put", !.key = key, !.exc = r.exc,
                          !.val = value, !.at = r.at]
    /\ UNCHANGED <<sut, items, kinds, shardfn, heap, colls, rstream, service, inflight, handles>>

ShardedDelete(key, fault) ==
    /\ sut = "sharded"
    /\ scursor' = Touched(scursor, TRUE)
    /\ LET r == ShardedDeleteImpl(shardfn, kinds, stores, key, fault)
       IN  /\ stores' = r.stores
           /\ last' = [NoCall EXCEPT !.op = "delete", !.key = key, !.exc = r.exc, !.at = r.at]
    /\ UNCHANGED <<sut, items, kinds, shardfn, heap, colls, rstream, service, inflight, handles>>

ShardedContains(key, fault) ==
    /\ sut = "sharded"
    /\ scursor' = Touched(scursor, FALSE)
    /\ LET r == ShardedContainsImpl(shardfn, kinds, stores, key, fault)
       IN  /\ stores' = r.stores
           /\ last' = [NoCall EXCEPT !.op = "contains", !.key = key, !.exc = r.exc,
                          !.flag = r.flag, !.at = r.at]
    /\ UNCHANGED <<sut, items, kinds, shardfn, heap, colls, rstream, service, inflight, handles>>

ShardedQuery(query) ==
    /\ sut = "sharded"
    /\ LET c == ShardedQueryImpl(kinds, stores, query)
       IN  IF c.state = "done"
           THEN scursor' = NoCursor /\ last' = QueryDone(c)
           ELSE scursor' = c /\ last' = [NoCall EXCEPT !.op = "cursor", !.query = query]
    /\ UNCHANGED <<sut, items, kinds, stores, shardfn, heap, colls, rstream, service, inflight, handles>>

(* next(cursor), by the caller that holds it *)
ShardedNext ==
    /\ sut = "sharded"
    /\ scursor.state \in {"new", "open"}
    /\ LET r == GenNext(kinds, stores, scursor)
       IN  IF r.c.state = "done"
           THEN scursor' = NoCursor /\ last' = QueryDone(r.c)
           ELSE scursor' = r.c /\ last' = [NoCall EXCEPT !.op = "next", !.val = r.item]
    /\ UNCHANGED <<sut, items, kinds, stores, shardfn, heap, colls, rstream, service, inflight, handles>>

(* TieredDatastore.query: the query of the last member, as it is *)
TieredQueryFirst(ks, ss, query) ==
    LET r == StoreQuery(ks[1], ss[1], query)
    IN  [exc |-> r.exc, out |-> IF r.exc = "none" THEN r.cursor.out ELSE <<>>,
         calls |-> <<<<1, "query">>>>]

TieredQueryImpl(ks, ss, query) ==
    LET r == StoreQuery(ks[Len(ss)], ss[Len(ss)], query)
    IN  [exc |-> r.exc, out |-> IF r.exc = "none" THEN r.cursor.out ELSE <<>>,
         calls |-> <<<<Len(ss), "query">>>>]

TieredQuery(query) ==
    /\ sut = "tiered"
    /\ LET r == TieredQueryImpl(kinds, stores, query)
       IN  last' = [NoCall EXCEPT !.op = "query", !.exc = r.exc, !.query = query,
                       !.out = r.out, !.calls = r.calls]
    /\ UNCHANGED <<sut, items, kinds, stores, shardfn, heap, colls, rstream, service, inflight, handles, scursor>>

(* The queries given to the tiered store: whole namespaces, sorted or not *)
TierQueries == {q \in Queries : q.offset = 0 /\ q.limit = NoLimit}

----------------------------------------------------------------------------
(* basic.ShimDatastore that overrides nothing, over a TieredDatastore of   *)
(* DictDatastores as its child.  get, put, delete and query are defined by *)
(* the shim and call the child; contains is not, so the shim inherits      *)
(* Datastore.contains, which calls the shim's own get.                     *)

ShimTiers == 2

ShimGetImpl(ks, ss, key) == TieredGetImpl(ks, ss, key, NoFault)
ShimPutImpl(ks, ss, key, value) == TieredPutImpl(ks, ss, key, value, 1, NoFault, <<>>)
ShimDeleteImpl(ks, ss, key) == TieredDeleteImpl(ks, ss, key, 1, NoFault, <<>>)
ShimQueryImpl(ks, ss, query) == TieredQueryImpl(ks, ss, query)

(* Datastore.contains on the shim: self.get(key) is not None *)
ShimContainsImpl(ks, ss, key) ==
    LET r == ShimGetImpl(ks, ss, key)
    IN  [stores |-> r.stores, exc |-> r.exc, flag |-> r.val # None, calls |-> r.calls]

ShimGet(key) ==
    /\ sut = "shim"
    /\ LET r == ShimGetImpl(kinds, stores, key)
       IN  /\ stores' = r.stores
           /\ last' = [NoCall EXCEPT !.op = "get", !.key = key, !.exc = r.exc,
                          !.val = r.val, !.calls = r.calls]
    /\ UNCHANGED <<sut, items, kinds, shardfn, heap, colls, rstream, service, inflight, handles, scursor>>

ShimPut(key, value) ==
    /\ sut = "shim"
    /\ LET r == ShimPutImpl(kinds, stores, key, value)
       IN  /\ stores' = r.stores
           /\ last' = [NoCall EXCEPT !.op = "put", !.key = key, !.exc = r.exc,
                          !.val = value, !.calls = r.calls]
    /\ UNCHANGED <<sut, items, kinds, shardfn, heap, colls, rstream, service, inflight, handles, scursor>>

ShimDelete(key) ==
    /\ sut = "shim"
    /\ LET r == ShimDeleteImpl(kinds, stores, key)
       IN  /\ stores' = r.stores
           /\ last' = [NoCall EXCEPT !.op = "delete", !.key = key, !.exc = r.exc,
                          !.calls = r.calls]
    /\ UNCHANGED <<sut, items, kinds, shardfn, heap, colls, rstream, service, inflight, handles, scursor>>

ShimContains(key) ==
    /\ sut = "shim"
    /\ LET r == ShimContainsImpl(kinds, stores, key)
       IN  /\ stores' = r.stores
           /\ last' = [NoCall EXCEPT !.op = "contains", !.key = key, !.exc = r.exc,
                          !.flag = r.flag, !.calls = r.calls]
    /\ UNCHANGED <<sut, items, kinds, shardfn, heap, colls, rstream, service, inflight, handles, scursor>>

ShimQuery(query) ==
    /\ sut = "shim"
    /\ LET r == ShimQueryImpl(kinds, stores, query)
       IN  last' = [NoCall EXCEPT !.op = "query", !.exc = r.exc, !.query = query,
                       !.out = r.out, !.calls = r.calls]
    /\ UNCHANGED <<sut, items, kinds, stores, shardfn, heap, colls, rstream, service, inflight, handles, scursor>>

(* The shards a behaviour is constructed with: DictDatastores, the first   *)
(* of them possibly replaced by a mapped foreign service.                  *)
ShardKinds ==
    {[i \in 1 .. NumShards |-> "dict"],
     [i \in 1 .. NumShards |-> IF i = 1 THEN "mapped" ELSE "dict"]}

(* The sharding functions a behaviour is constructed with: Key -> integer *)
ShardingFns ==
    { [key \in ShardKeys |-> key[2]],
      [key \in ShardKeys |-> 0 - key[2]],
      [key \in ShardKeys |-> key[2] \div 2] }

----------------------------------------------------------------------------
(* Stores that keep Datastore.contains as inherited: a single              *)
(* basic.InterfaceMappingDatastore (sut = "mapped", its service is         *)
(* stores[1]) and binarystore.NullDatastore (sut = "null").                *)

DefaultStores == {"mapped", "null"}

(* binarystore.NullDatastore *)
NullGet(key) == [exc |-> "KeyError", stream |-> <<>>]
NullPutImpl(key, stream) == [exc |-> "none"]
NullDelete(key) == [exc |-> "none"]

(* contains with a bare except: whatever get raises is False *)
BinDefaultContainsSwallows(r) ==
    IF r.exc = "none" THEN [exc |-> "none", flag |-> TRUE, aclosed |-> TRUE]
    ELSE [exc |-> "none", flag |-> FALSE, aclosed |-> FALSE]

(* binarystore.Datastore.contains over r, what get(key) gave: the stream   *)
(* is closed and the answer is True; KeyError is False; all else is raised *)
BinDefaultContains(r) ==
    IF r.exc = "none" THEN [exc |-> "none", flag |-> TRUE, aclosed |-> TRUE]
    ELSE IF r.exc = "KeyError" THEN [exc |-> "none", flag |-> FALSE, aclosed |-> FALSE]
    ELSE [exc |-> r.exc, flag |-> FALSE, aclosed |-> FALSE]

NullContains(key) == BinDefaultContains(NullGet(key))

MappedCallGet(key, broken) ==
    /\ sut = "mapped"
    /\ LET r == MappedGet(stores[1], key, broken)
       IN  /\ stores' = <<r.st>>
           /\ last' = [NoCall EXCEPT !.op = "get", !.key = key, !.exc = r.exc, !.val = r.val]
    /\ UNCHANGED <<sut, items, kinds, shardfn, heap, colls, rstream, service, inflight, handles, scursor>>

MappedCallPut(key, value, broken) ==
    /\ sut = "mapped"
    /\ LET r == MappedPut(stores[1], key, value, broken)
       IN  /\ stores' = <<r.st>>
           /\ last' = [NoCall EXCEPT !.op = "put", !.key = key, !.exc = r.exc, !.val = value]
    /\ UNCHANGED <<sut, items, kinds, shardfn, heap, colls, rstream, service, inflight, handles, scursor>>

MappedCallDelete(key, broken) ==
    /\ sut = "mapped"
    /\ LET r == MappedDelete(stores[1], key, broken)
       IN  /\ stores' = <<r.st>>
           /\ last' = [NoCall EXCEPT !.op = "delete", !.key = key, !.exc = r.exc]
    /\ UNCHANGED <<sut, items, kinds, shardfn, heap, colls, rstream, service, inflight, handles, scursor>>

MappedCallContains(key, broken) ==
    /\ sut = "mapped"
    /\ LET r == MappedContains(stores[1], key, broken)
       IN  /\ stores' = <<r.st>>
           /\ last' = [NoCall EXCEPT !.op = "contains", !.key = key, !.exc = r.exc,
                          !.flag = r.flag]
    /\ UNCHANGED <<sut, items, kinds, shardfn, heap, colls, rstream, service, inflight, handles, scursor>>

NullCallGet(key) ==
    /\ sut = "null"
    /\ last' = [NoCall EXCEPT !.op = "get", !.key = key, !.exc = NullGet(key).exc]
    /\ UNCHANGED <<sut, items, kinds, stores, shardfn, heap, colls, rstream, service, inflight, handles, scursor>>

NullCallPut(key, value) ==
    /\ sut = "null"
    /\ last' = [NoCall EXCEPT !.op = "put", !.key = key,
                   !.exc = NullPutImpl(key, receive_stream_from(value)).exc,
                   !.bytes = Content(value)]
    /\ UNCHANGED <<sut, items, kinds, stores, shardfn, heap, colls, rstream, service, inflight, handles, scursor>>

NullCallDelete(key) ==
    /\ sut = "null"
    /\ last' = [NoCall EXCEPT !.op = "delete", !.key = key, !.exc = NullDelete(key).exc]
    /\ UNCHANGED <<sut, items, kinds, stores, shardfn, heap, colls, rstream, service, inflight, handles, scursor>>

NullCallContains(key) ==
    /\ sut = "null"
    /\ LET r == NullContains(key)
       IN  last' = [NoCall EXCEPT !.op = "contains", !.key = key, !.exc = r.exc, !.flag = r.flag]
    /\ UNCHANGED <<sut, items, kinds, stores, shardfn, heap, colls, rstream, service, inflight, handles, scursor>>

----------------------------------------------------------------------------
(* basic.DatastoreCollection and its subclasses as containers of members   *)
(* (sut = "collections").  heap[1] is the list object that is the default  *)
(* value of DatastoreCollection.__init__'s `stores`, which TieredDatastore *)
(* inherits; heap[2] is the default value of ShardedDatastore.__init__'s   *)
(* `stores`.  Both are created once, when the functions are defined.       *)

CollectionDefault == 1
ShardedDefault == 2
Classes == {"tiered", "sharded"}

DefaultOf(cls) == IF cls = "sharded" THEN ShardedDefault ELSE CollectionDefault

(* isinstance(store, Datastore) *)
IsDatastore(store) == store \in MemberIds

(* The member list of collection c *)
Members(h, cs, c) == h[cs[c].ref]

(* DatastoreCollection.__init__(stores=[]) (through ShardedDatastore's for *)
(* a sharded store): arg is [given, data], the argument when one is given  *)
CollInit(h, cs, cls, arg) ==
    IF arg.given
    THEN IF \E n \in 1 .. Len(arg.data) : ~IsDatastore(arg.data[n])
         THEN [heap |-> h, colls |-> cs, exc |-> "TypeError"]
         ELSE [heap |-> Append(h, arg.data),
               colls |-> Append(cs, [cls |-> cls, ref |-> Len(h) + 1, given |-> TRUE]),
               exc |-> "none"]
    ELSE [heap |-> h,
          colls |-> Append(cs, [cls |-> cls, ref |-> DefaultOf(cls), given |-> FALSE]),
          exc |-> "none"]

(* appendDatastore without the isinstance check *)
CollAppendUnchecked(h, cs, c, store) ==
    [heap |-> [h EXCEPT ![cs[c].ref] = Append(@, store)], exc |-> "none"]

CollAppend(h, cs, c, store) ==
    IF ~IsDatastore(store) THEN [heap |-> h, exc |-> "TypeError"]
    ELSE [heap |-> [h EXCEPT ![cs[c].ref] = Append(@, store)], exc |-> "none"]

(* list.insert(index, x): a negative index counts from the end, and the    *)
(* index is clamped to the list                                            *)
ListInsert(l, index, x) ==
    LET i0 == IF index < 0 THEN index + Len(l) ELSE index
        i == IF i0 < 0 THEN 0 ELSE IF i0 > Len(l) THEN Len(l) ELSE i0
    IN  SubSeq(l, 1, i) \o <<x>> \o SubSeq(l, i + 1, Len(l))

CollInsert(h, cs, c, index, store) ==
    IF ~IsDatastore(store) THEN [heap |-> h, exc |-> "TypeError"]
    ELSE [heap |-> [h EXCEPT ![cs[c].ref] = ListInsert(@, index, store)], exc |-> "none"]

(* list.remove(x): the first element equal to x, ValueError when none is *)
ListRemove(l, x) ==
    LET i == CHOOSE n \in 1 .. Len(l) : l[n] = x /\ \A m \in 1 .. n - 1 : l[m] # x
    IN  SubSeq(l, 1, i - 1) \o SubSeq(l, i + 1, Len(l))

CollRemove(h, cs, c, store) ==
    IF \A n \in 1 .. Len(h[cs[c].ref]) : h[cs[c].ref][n] # store
    THEN [heap |-> h, exc |-> "ValueError"]
    ELSE [heap |-> [h EXCEPT ![cs[c].ref] = ListRemove(@, store)], exc |-> "none"]

Construct(cls, arg) ==
    /\ sut = "collections"
    /\ Len(colls) < NumColls
    /\ LET r == CollInit(heap, colls, cls, arg)
       IN  /\ heap' = r.heap
           /\ colls' = r.colls
           /\ last' = [NoCall EXCEPT !.op = "construct", !.exc = r.exc,
                          !.coll = IF r.exc = "none" THEN Len(r.colls) ELSE 0,
                          !.given = arg.data]
    /\ UNCHANGED <<sut, items, kinds, stores, shardfn, rstream, service, inflight, handles, scursor>>

AppendDatastore(c, store) ==
    /\ sut = "collections"
    /\ c \in 1 .. Len(colls)
    /\ (Len(Members(heap, colls, c)) < MaxMembers \/ ~IsDatastore(store))
    /\ LET r == CollAppend(heap, colls, c, store)
       IN  /\ heap' = r.heap
           /\ last' = [NoCall EXCEPT !.op = "append", !.exc = r.exc, !.coll = c, !.store = store]
    /\ UNCHANGED <<sut, items, kinds, stores, shardfn, colls, rstream, service, inflight, handles, scursor>>

InsertDatastore(c, index, store) ==
    /\ sut = "collections"
    /\ c \in 1 .. Len(colls)
    /\ (Len(Members(heap, colls, c)) < MaxMembers \/ ~IsDatastore(store))
    /\ LET r == CollInsert(heap, colls, c, index, store)
       IN  /\ heap' = r.heap
           /\ last' = [NoCall EXCEPT !.op = "insert", !.exc = r.exc, !.coll = c,
                          !.store = store, !.index = index]
    /\ UNCHANGED <<sut, items, kinds, stores, shardfn, colls, rstream, service, inflight, handles, scursor>>

RemoveDatastore(c, store) ==
    /\ sut = "collections"
    /\ c \in 1 .. Len(colls)
    /\ LET r == CollRemove(heap, colls, c, store)
       IN  /\ heap' = r.heap
           /\ last' = [NoCall EXCEPT !.op = "remove", !.exc = r.exc, !.coll = c, !.store = store]
    /\ UNCHANGED <<sut, items, kinds, stores, shardfn, colls, rstream, service, inflight, handles, scursor>>

(* The arguments a collection is constructed with: none, or a list *)
CollArgs ==
    {[given |-> FALSE, data |-> <<>>]} \cup
    {[given |-> TRUE, data |-> d] : d \in {<<>>, <<2, 1>>, <<1, NotAStore>>}}

----------------------------------------------------------------------------
(* Stream (datastore.util.stream) over a counting resource.  A stream is   *)
(* [state: "none" before any is made, "open", "exhausted" or "closed";     *)
(* n: the chunks its source yields; pos: the chunks read; failat: the      *)
(* chunk at which the source raises, 0 for never; released: how often the  *)
(* resource was released; closes: the explicit closes made; dropped: the   *)
(* stream was given to a store, whose call has returned: nothing is done   *)
(* to it any more].  While a put that was given the stream is suspended in *)
(* value.collect(), inflight.calls holds it: [key: the key it was called   *)
(* with; from: the chunks that had been read when it was called].          *)

NoStream == [state |-> "none", n |-> 0, pos |-> 0, failat |-> 0, released |-> 0, closes |-> 0,
             dropped |-> FALSE]
Terminal == {"exhausted", "closed"}

(* receive_stream_from over a source of n chunks holding a resource *)
StreamFrom(n, failat) ==
    [state |-> "open", n |-> n, pos |-> 0, failat |-> failat, released |-> 0, closes |-> 0,
     dropped |-> FALSE]

(* The terminal transition: the resource is let go *)
StreamRelease(s, state) == [s EXCEPT !.state = state, !.released = @ + 1]

(* One read: a chunk, the end of the source (exhausted), or the source's   *)
(* error (closed)                                                          *)
StreamReceive(s) ==
    IF s.state # "open" THEN [s |-> s, exc |-> "none"]
    ELSE IF s.failat = s.pos + 1 THEN [s |-> StreamRelease(s, "closed"), exc |-> "Internal"]
    ELSE IF s.pos < s.n THEN [s |-> [s EXCEPT !.pos = @ + 1], exc |-> "none"]
    ELSE [s |-> StreamRelease(s, "exhausted"), exc |-> "none"]

(* collect(): read to the end *)
RECURSIVE StreamCollect(_)
StreamCollect(s) ==
    LET r == StreamReceive(s)
    IN  IF r.exc # "none" \/ r.s.state # "open" THEN r ELSE StreamCollect(r.s)

(* aclose(): the closed transition on an open stream, nothing afterwards *)
StreamClose(s) ==
    IF s.state = "open"
    THEN [StreamRelease(s, "closed") EXCEPT !.closes = @ + 1]
    ELSE [s EXCEPT !.closes = @ + 1]

(* Cancellation while a read is pending *)
StreamCancel(s) ==
    IF s.state = "open" THEN [s |-> StreamRelease(s, "closed"), exc |-> "Cancelled"]
    ELSE [s |-> s, exc |-> "none"]

(* The chunks read from a stream since `from` had been read: the j-th      *)
(* chunk of a source is the one byte j                                     *)
StreamRead(s, from) == [j \in 1 .. (s.pos - from) |-> <<from + j>>]

(* DictDatastore._put as the consumer of its value, one read of            *)
(* value.collect() at a time: a chunk more, or the end of the stream (it   *)
(* was ended already, the source is at its end or the source raises)       *)
PutConsume(s) == StreamReceive(s)

(* A put was given the stream and has not returned *)
Putting == inflight.calls # <<>>

(* NullDatastore._put as the consumer of its value: pass.  The value is    *)
(* neither read nor closed.                                                *)
NullPutConsume(s) == [s |-> s, exc |-> "none"]

(* The consumer has returned: the stream it was given is let go *)
Dropped(s) == [s EXCEPT !.dropped = TRUE]

(* contains that drops the stream without closing it *)
ContainsConsumeNoClose(s) == [s |-> s, exc |-> "none"]

(* Datastore.contains as the consumer of what get gave: aclose() *)
ContainsConsume(s) == [s |-> StreamClose(s), exc |-> "none"]

(* receive_stream_from by a caller that holds no stream: the one it had    *)
(* has ended, or was given to a store                                      *)
Open(n, failat) ==
    /\ sut = "stream"
    /\ ~Putting
    /\ rstream.state # "open" \/ rstream.dropped
    /\ rstream' = StreamFrom(n, failat)
    /\ last' = [NoCall EXCEPT !.op = "open"]
    /\ UNCHANGED <<sut, items, kinds, stores, shardfn, heap, colls, service, inflight, handles, scursor>>

Receive ==
    /\ sut = "stream"
    /\ ~Putting
    /\ rstream.state = "open" /\ ~rstream.dropped
    /\ LET r == StreamReceive(rstream)
       IN  /\ rstream' = r.s
           /\ last' = [NoCall EXCEPT !.op = "receive", !.exc = r.exc]
    /\ UNCHANGED <<sut, items, kinds, stores, shardfn, heap, colls, service, inflight, handles, scursor>>

Collect ==
    /\ sut = "stream"
    /\ ~Putting
    /\ rstream.state = "open" /\ ~rstream.dropped
    /\ LET r == StreamCollect(rstream)
       IN  /\ rstream' = r.s
           /\ last' = [NoCall EXCEPT !.op = "collect", !.exc = r.exc]
    /\ UNCHANGED <<sut, items, kinds, stores, shardfn, heap, colls, service, inflight, handles, scursor>>

(* aclose() by the caller: how a stream is abandoned after a partial read, *)
(* and the close of a stream that has ended already                        *)
Close ==
    /\ sut = "stream"
    /\ ~Putting
    /\ rstream.state # "none" /\ ~rstream.dropped
    /\ rstream.closes < MaxCloses
    /\ rstream' = StreamClose(rstream)
    /\ last' = [NoCall EXCEPT !.op = "close"]
    /\ UNCHANGED <<sut, items, kinds, stores, shardfn, heap, colls, service, inflight, handles, scursor>>

Cancel ==
    /\ sut = "stream"
    /\ ~Putting
    /\ rstream.state = "open" /\ ~rstream.dropped
    /\ LET r == StreamCancel(rstream)
       IN  /\ rstream' = r.s
           /\ last' = [NoCall EXCEPT !.op = "cancel", !.exc = r.exc]
    /\ UNCHANGED <<sut, items, kinds, stores, shardfn, heap, colls, service, inflight, handles, scursor>>

(* put(key, value) on a DictDatastore with the stream as its value, up to  *)
(* its first suspension: Datastore.put awaits _put, which awaits           *)
(* value.collect().  Nothing is read or stored yet; the caller is held     *)
(* until the put returns.  A stream that has ended can be given as well.   *)
PutStream(key) ==
    /\ sut = "stream"
    /\ ~Putting
    /\ rstream.state # "none" /\ ~rstream.dropped
    /\ inflight' = [inflight EXCEPT !.calls = <<[key |-> key, from |-> rstream.pos]>>]
    /\ last' = NoCall
    /\ UNCHANGED <<sut, items, kinds, stores, shardfn, heap, colls, rstream, service, handles, scursor>>

(* The suspended put resumes for one read of value.collect().  After a     *)
(* chunk it is suspended again.  At the end of the stream collect returns  *)
(* what was read and self._collection(key)[key] is assigned; the right-    *)
(* hand side comes first: when the source raises, _items is left as it     *)
(* was and the put raises.                                                 *)
PutStreamRead ==
    /\ sut = "stream"
    /\ Putting
    /\ LET call == inflight.calls[1]
           r == PutConsume(rstream)
           read == StreamRead(r.s, call.from)
       IN  IF r.exc = "none" /\ r.s.state = "open"
           THEN /\ rstream' = r.s
                /\ UNCHANGED <<items, inflight, last>>
           ELSE /\ rstream' = Dropped(r.s)
                /\ inflight' = [inflight EXCEPT !.calls = <<>>]
                /\ items' = IF r.exc = "none"
                            THEN BinDictPutImpl(items, call.key, read).items
                            ELSE items
                /\ last' = [NoCall EXCEPT !.op = "put", !.key = call.key, !.exc = r.exc,
                               !.bytes = IF r.exc = "none" THEN Concat(read) ELSE NoBytes]
    /\ UNCHANGED <<sut, kinds, stores, shardfn, heap, colls, service, handles, scursor>>

(* The caller's scope is cancelled while the put is suspended in a read:   *)
(* the stream is closed, nothing is assigned and the put raises Cancelled  *)
PutStreamCancel ==
    /\ sut = "stream"
    /\ Putting
    /\ rstream.state = "open"
    /\ LET call == inflight.calls[1]
           r == StreamCancel(rstream)
       IN  /\ rstream' = Dropped(r.s)
           /\ last' = [NoCall EXCEPT !.op = "put", !.key = call.key, !.exc = r.exc]
    /\ inflight' = [inflight EXCEPT !.calls = <<>>]
    /\ UNCHANGED <<sut, items, kinds, stores, shardfn, heap, colls, service, handles, scursor>>

(* put(key, value) on a NullDatastore with the stream as its value: _put   *)
(* returns at once, without a suspension; nothing is stored and the stream *)
(* is as it was                                                            *)
NullPutStream(key) ==
    /\ sut = "stream"
    /\ ~Putting
    /\ rstream.state # "none" /\ ~rstream.dropped
    /\ LET r == NullPutConsume(rstream)
       IN  /\ rstream' = Dropped(r.s)
           /\ last' = [NoCall EXCEPT !.op = "put", !.key = key, !.exc = r.exc]
    /\ UNCHANGED <<sut, items, kinds, stores, shardfn, heap, colls, service, inflight, handles, scursor>>

(* the inherited contains on a store whose get gave the stream *)
ContainsStream ==
    /\ sut = "stream"
    /\ ~Putting
    /\ rstream.state = "open" /\ ~rstream.dropped
    /\ rstream.pos = 0
    /\ LET r == ContainsConsume(rstream)
       IN  /\ rstream' = Dropped(r.s)
           /\ last' = [NoCall EXCEPT !.op = "contains", !.exc = r.exc, !.flag = TRUE]
    /\ UNCHANGED <<sut, items, kinds, stores, shardfn, heap, colls, service, inflight, handles, scursor>>

----------------------------------------------------------------------------
(* InterfaceMappingDatastore over a foreign service.  The service is an    *)
(* object having some of the methods get, put, set, delete; the store is   *)
(* constructed with the names of the methods to use for get, put, delete   *)
(* and a function projecting a Key to a key of the service.  service is    *)
(* [state: "none" before construction, "built" or "failed"; attrs: the     *)
(* methods the service has; ops: the names bound; keyfn; data: what the    *)
(* service holds].                                                         *)

ServiceAttrs == {"get", "put", "set", "delete"}
DefaultNames == [get |-> "get", put |-> "put", delete |-> "delete"]
RedisNames == [get |-> "get", put |-> "set", delete |-> "delete"]
KeyFns == {"str", "name"}

NoService == [state |-> "none", attrs |-> {}, ops |-> DefaultNames, keyfn |-> "str",
              data |-> EmptyDict]

(* self._service_key(key) *)
ProjectKey(keyfn, key) == IF keyfn = "str" THEN ServiceKey(key) ELSE key[2]

(* __init__ that looks no method up *)
MappingInitUnchecked(attrs, names, keyfn) ==
    [service |-> [state |-> "built", attrs |-> attrs, ops |-> names, keyfn |-> keyfn,
                  data |-> EmptyDict],
     exc |-> "none"]

(* __init__: getattr(service, name) of each of the three names *)
MappingInit(attrs, names, keyfn) ==
    IF \E op \in {"get", "put", "delete"} : names[op] \notin attrs
    THEN [service |-> [state |-> "failed", attrs |-> attrs, ops |-> names, keyfn |-> keyfn,
                       data |-> EmptyDict],
          exc |-> "AttributeError"]
    ELSE [service |-> [state |-> "built", attrs |-> attrs, ops |-> names, keyfn |-> keyfn,
                       data |-> EmptyDict],
          exc |-> "none"]

(* A method of the service, by its name *)
ServiceCall(attr, data, sk, value) ==
    IF attr = "get"
    THEN [data |-> data, exc |-> "none", val |-> IF sk \in DOMAIN data THEN data[sk] ELSE None]
    ELSE IF attr \in {"put", "set"}
    THEN [data |-> DictSet(data, sk, value), exc |-> "none", val |-> None]
    ELSE IF sk \in DOMAIN data
    THEN [data |-> DictDel(data, sk), exc |-> "none", val |-> None]
    ELSE [data |-> data, exc |-> "KeyError", val |-> None]

(* get / put / delete: the bound method on the projected key *)
MappingCall(svc, op, key, value) ==
    LET sk == ProjectKey(svc.keyfn, key)
        r == ServiceCall(svc.ops[op], svc.data, sk, value)
    IN  [service |-> [svc EXCEPT !.data = r.data], exc |-> r.exc, val |-> r.val,
         calls |-> <<<<svc.ops[op], sk>>>>]

MappingConstruct(attrs, names, keyfn) ==
    /\ sut = "mapping"
    /\ service.state = "none"
    /\ LET r == MappingInit(attrs, names, keyfn)
       IN  /\ service' = r.service
           /\ last' = [NoCall EXCEPT !.op = "construct", !.exc = r.exc]
    /\ UNCHANGED <<sut, items, kinds, stores, shardfn, heap, colls, rstream, inflight, handles, scursor>>

MappingGet(key) ==
    /\ sut = "mapping"
    /\ service.state = "built"
    /\ LET r == MappingCall(service, "get", key, None)
       IN  /\ service' = r.service
           /\ last' = [NoCall EXCEPT !.op = "get", !.key = key, !.exc = r.exc,
                          !.val = r.val, !.calls = r.calls]
    /\ UNCHANGED <<sut, items, kinds, stores, shardfn, heap, colls, rstream, inflight, handles, scursor>>

MappingPut(key, value) ==
    /\ sut = "mapping"
    /\ service.state = "built"
    /\ LET r == MappingCall(service, "put", key, value)
       IN  /\ service' = r.service
           /\ last' = [NoCall EXCEPT !.op = "put", !.key = key, !.exc = r.exc,
                          !.val = value, !.calls = r.calls]
    /\ UNCHANGED <<sut, items, kinds, stores, shardfn, heap, colls, rstream, inflight, handles, scursor>>

MappingDelete(key) ==
    /\ sut = "mapping"
    /\ service.state = "built"
    /\ LET r == MappingCall(service, "delete", key, None)
       IN  /\ service' = r.service
           /\ last' = [NoCall EXCEPT !.op = "delete", !.key = key, !.exc = r.exc,
                          !.calls = r.calls]
    /\ UNCHANGED <<sut, items, kinds, stores, shardfn, heap, colls, rstream, inflight, handles, scursor>>

----------------------------------------------------------------------------
(* Tiered calls that run at the same time (basic.py:298-323).  Each caller *)
(* is inside at most one call of the tiered store; a step of a caller is   *)
(* one call on one member, and between two steps the other callers may     *)
(* take theirs.  The tiered store takes no lock.                           *)

NumProcs == 2
ConcTiers == 2
Procs == 1 .. NumProcs

Idle == [op |-> "none", key |-> NoKey, val |-> None, pc |-> "idle", i |-> 0, hit |-> 0]

(* `raced` and `wraced` are a history of the behaviour, not fields of the  *)
(* program: the keys on which a put or a delete has run at the same time   *)
(* as another call on the same key, and those on which it has run at the   *)
(* same time as another put or delete.                                     *)
NoInflight == [calls |-> <<>>, raced |-> {}, wraced |-> {}]

ConcTierKinds ==
    {ks \in [1 .. ConcTiers -> Kinds] : ks[1] = "dict"}

(* The call a caller enters: the loop it starts in, at the first member *)
Enter(op, key, value) ==
    [op |-> op, key |-> key, val |-> IF op = "put" THEN value ELSE None,
     pc |-> IF op = "get" THEN "scan" ELSE op, i |-> 1, hit |-> 0]

(* The call leaves the tiered store, with or without an exception *)
Return(ss, c, exc, val) ==
    [stores |-> ss, call |-> Idle, done |-> TRUE, exc |-> exc, val |-> val, hit |-> c.hit]
Continue(ss, c) ==
    [stores |-> ss, call |-> c, done |-> FALSE, exc |-> "none", val |-> None, hit |-> c.hit]

(* get, one turn of the first loop: value = store.get(key); on a value the *)
(* second loop starts, and ends at once when the first member gave it      *)
ScanStep(ks, ss, c) ==
    LET r == StoreGet(ks[c.i], ss[c.i], c.key, FALSE)
        ss1 == [ss EXCEPT ![c.i] = r.st]
    IN  IF r.exc # "none" THEN Return(ss1, c, r.exc, None)
        ELSE IF r.val # None
        THEN IF SameStore(ks, c.i, 1)
             THEN Return(ss1, [c EXCEPT !.hit = c.i], "none", r.val)
             ELSE Continue(ss1, [c EXCEPT !.pc = "promote", !.val = r.val,
                                          !.hit = c.i, !.i = 1])
        ELSE IF c.i = Len(ss) THEN Return(ss1, c, "none", None)
        ELSE Continue(ss1, [c EXCEPT !.i = c.i + 1])

(* get, one turn of the second loop: store2.put(key, value), then the test *)
(* store == store2 on the next member                                      *)
PromoteStep(ks, ss, c) ==
    LET r == StorePut(ks[c.i], ss[c.i], c.key, c.val, FALSE)
        ss1 == [ss EXCEPT ![c.i] = r.st]
    IN  IF r.exc # "none" THEN Return(ss1, c, r.exc, None)
        ELSE IF c.i + 1 > Len(ss) \/ SameStore(ks, c.hit, c.i + 1)
        THEN Return(ss1, c, "none", c.val)
        ELSE Continue(ss1, [c EXCEPT !.i = c.i + 1])

(* put that returns after the first member *)
PutStepFirstOnly(ks, ss, c) ==
    LET r == StorePut(ks[c.i], ss[c.i], c.key, c.val, FALSE)
    IN  Return([ss EXCEPT ![c.i] = r.st], c, r.exc, None)

(* put, one turn of the loop: store.put(key, value) *)
PutStep(ks, ss, c) ==
    LET r == StorePut(ks[c.i], ss[c.i], c.key, c.val, FALSE)
        ss1 == [ss EXCEPT ![c.i] = r.st]
    IN  IF r.exc # "none" THEN Return(ss1, c, r.exc, None)
        ELSE IF c.i = Len(ss) THEN Return(ss1, c, "none", None)
        ELSE Continue(ss1, [c EXCEPT !.i = c.i + 1])

(* delete, one turn of the loop: store.delete(key) *)
DeleteStep(ks, ss, c) ==
    LET r == StoreDelete(ks[c.i], ss[c.i], c.key, FALSE)
        ss1 == [ss EXCEPT ![c.i] = r.st]
    IN  IF r.exc # "none" THEN Return(ss1, c, r.exc, None)
        ELSE IF c.i = Len(ss) THEN Return(ss1, c, "none", None)
        ELSE Continue(ss1, [c EXCEPT !.i = c.i + 1])

(* A put or a delete on `key` meets another call on it, or a get meets a   *)
(* put or a delete on it                                                   *)
Overlaps(calls, p, op, key) ==
    \E q \in DOMAIN calls :
        q # p /\ calls[q].pc # "idle" /\ calls[q].key = key
              /\ (op # "get" \/ calls[q].op # "get")

(* A put or a delete on `key` meets another put or delete on it *)
WritersOverlap(calls, p, op, key) ==
    \E q \in DOMAIN calls :
        q # p /\ calls[q].pc # "idle" /\ calls[q].key = key
              /\ op # "get" /\ calls[q].op # "get"

Advance(p, r) ==
    /\ stores' = r.stores
    /\ inflight' = [inflight EXCEPT !.calls[p] = r.call]
    /\ last' = IF r.done
               THEN [NoCall EXCEPT !.op = inflight.calls[p].op, !.exc = r.exc, !.hit = r.hit]
               ELSE last

ConcCall(p, op, key, value) ==
    /\ sut = "conctiered"
    /\ inflight.calls[p].pc = "idle"
    /\ inflight' = [calls |-> [inflight.calls EXCEPT ![p] = Enter(op, key, value)],
                    raced |-> inflight.raced \cup
                              (IF Overlaps(inflight.calls, p, op, key) THEN {key} ELSE {}),
                    wraced |-> inflight.wraced \cup
                              (IF WritersOverlap(inflight.calls, p, op, key) THEN {key} ELSE {})]
    /\ UNCHANGED <<sut, items, kinds, stores, shardfn, heap, colls, rstream, service, last, handles, scursor>>

ConcScan(p) ==
    /\ sut = "conctiered"
    /\ inflight.calls[p].pc = "scan"
    /\ Advance(p, ScanStep(kinds, stores, inflight.calls[p]))
    /\ UNCHANGED <<sut, items, kinds, shardfn, heap, colls, rstream, service, handles, scursor>>

ConcPromote(p) ==
    /\ sut = "conctiered"
    /\ inflight.calls[p].pc = "promote"
    /\ Advance(p, PromoteStep(kinds, stores, inflight.calls[p]))
    /\ UNCHANGED <<sut, items, kinds, shardfn, heap, colls, rstream, service, handles, scursor>>

ConcPut(p) ==
    /\ sut = "conctiered"
    /\ inflight.calls[p].pc = "put"
    /\ Advance(p, PutStep(kinds, stores, inflight.calls[p]))
    /\ UNCHANGED <<sut, items, kinds, shardfn, heap, colls, rstream, service, handles, scursor>>

ConcDelete(p) ==
    /\ sut = "conctiered"
    /\ inflight.calls[p].pc = "delete"
    /\ Advance(p, DeleteStep(kinds, stores, inflight.calls[p]))
    /\ UNCHANGED <<sut, items, kinds, shardfn, heap, colls, rstream, service, handles, scursor>>

InitConc ==
    /\ sut = "conctiered"
    /\ items = EmptyDict
    /\ kinds \in ConcTierKinds
    /\ stores = [i \in 1 .. ConcTiers |-> NewStore(kinds[i])]
    /\ shardfn = <<>>
    /\ heap = <<>>
    /\ colls = <<>>
    /\ rstream = NoStream
    /\ service = NoService
    /\ inflight = [calls |-> [p \in Procs |-> Idle], raced |-> {}, wraced |-> {}]
    /\ handles = <<>>
    /\ scursor = NoCursor
    /\ last = NoCall

NextConc ==
    \/ \E p \in Procs, op \in {"get", "put", "delete"}, key \in TierKeys, value \in Values :
           ConcCall(p, op, key, value)
    \/ \E p \in Procs : ConcScan(p)
    \/ \E p \in Procs : ConcPromote(p)
    \/ \E p \in Procs : ConcPut(p)
    \/ \E p \in Procs : ConcDelete(p)

SpecConc == InitConc /\ [][NextConc]_vars

----------------------------------------------------------------------------
(* A binary store that keeps Datastore.contains as inherited              *)
(* (binarystore.py:134-149) over a get that hands out a stream on the      *)
(* stored bytes, as DictDatastore.get does, and raises KeyError for a key  *)
(* that is not stored.  Every stream get hands out is kept in `handles`    *)
(* with the one who asked for it: contains, or the caller of get.          *)

MaxHandles == 3

(* The stream get gives for r, what the store's get found *)
HandleOf(by, r) == [by |-> by, s |-> StreamFrom(Len(r.stream), 0)]

(* get with the service behind the store failing or not *)
InheritGet(its, key, broken) ==
    IF broken THEN [items |-> its, exc |-> "Internal", stream |-> <<>>]
    ELSE BinDictGet(its, key)

(* try: await (await self.get(key)).aclose(); return True                  *)
(* except KeyError: return False                                           *)
InheritContains(hs, r) ==
    LET d == BinDefaultContains(r)
    IN  IF r.exc # "none" THEN [handles |-> hs, exc |-> d.exc, flag |-> d.flag]
        ELSE LET h == HandleOf("contains", r)
                 c == IF d.aclosed THEN ContainsConsume(h.s) ELSE [s |-> h.s, exc |-> "none"]
             IN  [handles |-> Append(hs, [h EXCEPT !.s = c.s]), exc |-> c.exc, flag |-> d.flag]

InheritCallPut(key, value) ==
    /\ sut = "inherit"
    /\ LET r == BinDictPut(items, key, value)
       IN  /\ items' = r.items
           /\ last' = [NoCall EXCEPT !.op = "put", !.key = key, !.exc = r.exc]
    /\ UNCHANGED <<sut, kinds, stores, shardfn, heap, colls, rstream, service, inflight, handles, scursor>>

InheritCallDelete(key) ==
    /\ sut = "inherit"
    /\ LET r == BinDictDelete(items, key)
       IN  /\ items' = r.items
           /\ last' = [NoCall EXCEPT !.op = "delete", !.key = key, !.exc = r.exc]
    /\ UNCHANGED <<sut, kinds, stores, shardfn, heap, colls, rstream, service, inflight, handles, scursor>>

(* get by a caller, who holds the stream from then on *)
InheritCallGet(key, broken) ==
    /\ sut = "inherit"
    /\ Len(handles) < MaxHandles
    /\ LET r == InheritGet(items, key, broken)
       IN  /\ items' = r.items
           /\ handles' = IF r.exc = "none" THEN Append(handles, HandleOf("caller", r))
                         ELSE handles
           /\ last' = [NoCall EXCEPT !.op = "get", !.key = key, !.exc = r.exc]
    /\ UNCHANGED <<sut, kinds, stores, shardfn, heap, colls, rstream, service, inflight, scursor>>

(* the caller closes a stream it holds *)
InheritCallClose(i) ==
    /\ sut = "inherit"
    /\ i \in 1 .. Len(handles)
    /\ handles[i].by = "caller"
    /\ handles[i].s.closes < MaxCloses
    /\ handles' = [handles EXCEPT ![i].s = StreamClose(@)]
    /\ last' = [NoCall EXCEPT !.op = "close"]
    /\ UNCHANGED <<sut, items, kinds, stores, shardfn, heap, colls, rstream, service, inflight, scursor>>

InheritCallContains(key, broken) ==
    /\ sut = "inherit"
    /\ Len(handles) < MaxHandles
    /\ LET g == InheritGet(items, key, broken)
           r == InheritContains(handles, g)
       IN  /\ items' = g.items
           /\ handles' = r.handles
           /\ last' = [NoCall EXCEPT !.op = "contains", !.key = key, !.exc = r.exc,
                          !.flag = r.flag]
    /\ UNCHANGED <<sut, kinds, stores, shardfn, heap, colls, rstream, service, inflight, scursor>>

InheritArgs == {[kind |-> "bytes", data |-> <<1>>], [kind |-> "chunks", data |-> <<<<1>>, <<2>>>>]}

InitInherit ==
    /\ sut = "inherit"
    /\ items = EmptyDict
    /\ kinds = <<>>
    /\ stores = <<>>
    /\ shardfn = <<>>
    /\ heap = <<>>
    /\ colls = <<>>
    /\ rstream = NoStream
    /\ service = NoService
    /\ inflight = NoInflight
    /\ handles = <<>>
    /\ scursor = NoCursor
    /\ last = NoCall

NextInherit ==
    \/ \E key \in TierKeys, value \in InheritArgs : InheritCallPut(key, value)
    \/ \E key \in TierKeys : InheritCallDelete(key)
    \/ \E key \in TierKeys, broken \in BOOLEAN : InheritCallGet(key, broken)
    \/ \E i \in 1 .. MaxHandles : InheritCallClose(i)
    \/ \E key \in TierKeys, broken \in BOOLEAN : InheritCallContains(key, broken)

SpecInherit == InitInherit /\ [][NextInherit]_vars

----------------------------------------------------------------------------
(* binarystore.Adapter over a child whose backing may fail (sut =          *)
(* "adapted").  The child is the store above: it keeps Datastore.contains  *)
(* as inherited, and a call on it made with broken set raises the internal *)
(* error of its backing (RuntimeError) and stores nothing.                 *)

InheritPut(its, key, value, broken) ==
    IF broken THEN [items |-> its, exc |-> "Internal"] ELSE BinDictPut(its, key, value)

InheritDelete(its, key, broken) ==
    IF broken THEN [items |-> its, exc |-> "Internal"] ELSE BinDictDelete(its, key)

InheritQuery(its, query, broken) ==
    IF broken THEN [items |-> its, exc |-> "Internal", returned |-> 0]
    ELSE BinDictQuery(its, query)

(* return await self.child_datastore.get(key) *)
AdapterGetOver(its, key, broken) == InheritGet(its, key, broken)

(* await self.child_datastore.put(key, value), under Datastore.put *)
AdapterPutImplOver(its, key, stream, broken) ==
    InheritPut(its, key, [kind |-> "chunks", data |-> stream], broken)

AdapterPutOver(its, key, value, broken) ==
    AdapterPutImplOver(its, key, receive_stream_from(value), broken)

(* await self.child_datastore.delete(key) *)
AdapterDeleteOver(its, key, broken) == InheritDelete(its, key, broken)

(* return await self.child_datastore.contains(key): the child's contains   *)
(* is Datastore.contains over the child's get                              *)
AdapterContainsOver(its, key, broken) ==
    LET g == InheritGet(its, key, broken)
        d == BinDefaultContains(g)
    IN  [items |-> g.items, exc |-> d.exc, flag |-> d.flag]

(* return await self.child_datastore.query(query) *)
AdapterQueryOver(its, query, broken) == InheritQuery(its, query, broken)

AdaptedGet(key, broken) ==
    /\ sut = "adapted"
    /\ LET r == AdapterGetOver(items, key, broken)
       IN  /\ items' = r.items
           /\ last' = [NoCall EXCEPT !.op = "get", !.key = key, !.exc = r.exc,
                          !.bytes = IF r.exc = "none" THEN collect(r.stream) ELSE NoBytes]
    /\ UNCHANGED <<sut, kinds, stores, shardfn, heap, colls, rstream, service, inflight, handles, scursor>>

AdaptedPut(key, value, broken) ==
    /\ sut = "adapted"
    /\ LET r == AdapterPutOver(items, key, value, broken)
       IN  /\ items' = r.items
           /\ last' = [NoCall EXCEPT !.op = "put", !.key = key, !.exc = r.exc,
                          !.bytes = Content(value)]
    /\ UNCHANGED <<sut, kinds, stores, shardfn, heap, colls, rstream, service, inflight, handles, scursor>>

AdaptedDelete(key, broken) ==
    /\ sut = "adapted"
    /\ LET r == AdapterDeleteOver(items, key, broken)
       IN  /\ items' = r.items
           /\ last' = [NoCall EXCEPT !.op = "delete", !.key = key, !.exc = r.exc]
    /\ UNCHANGED <<sut, kinds, stores, shardfn, heap, colls, rstream, service, inflight, handles, scursor>>

AdaptedContains(key, broken) ==
    /\ sut = "adapted"
    /\ LET r == AdapterContainsOver(items, key, broken)
       IN  /\ items' = r.items
           /\ last' = [NoCall EXCEPT !.op = "contains", !.key = key, !.exc = r.exc,
                          !.flag = r.flag]
    /\ UNCHANGED <<sut, kinds, stores, shardfn, heap, colls, rstream, service, inflight, handles, scursor>>

AdaptedQuery(query, broken) ==
    /\ sut = "adapted"
    /\ LET r == AdapterQueryOver(items, query, broken)
       IN  /\ items' = r.items
           /\ last' = [NoCall EXCEPT !.op = "query", !.exc = r.exc, !.query = query]
    /\ UNCHANGED <<sut, kinds, stores, shardfn, heap, colls, rstream, service, inflight, handles, scursor>>

InitAdapted ==
    /\ sut = "adapted"
    /\ items = EmptyDict
    /\ kinds = <<>>
    /\ stores = <<>>
    /\ shardfn = <<>>
    /\ heap = <<>>
    /\ colls = <<>>
    /\ rstream = NoStream
    /\ service = NoService
    /\ inflight = NoInflight
    /\ handles = <<>>
    /\ scursor = NoCursor
    /\ last = NoCall

NextAdapted ==
    \/ \E key \in Keys, broken \in BOOLEAN : AdaptedGet(key, broken)
    \/ \E key \in Keys, value \in StreamArgs, broken \in BOOLEAN : AdaptedPut(key, value, broken)
    \/ \E key \in Keys, broken \in BOOLEAN : AdaptedDelete(key, broken)
    \/ \E key \in Keys, broken \in BOOLEAN : AdaptedContains(key, broken)
    \/ \E query \in BinQueries, broken \in BOOLEAN : AdaptedQuery(query, broken)

----------------------------------------------------------------------------

InitBin ==
    /\ sut \in BinStores
    /\ items = EmptyDict
    /\ kinds = <<>>
    /\ stores = <<>>
    /\ shardfn = <<>>
    /\ heap = <<>>
    /\ colls = <<>>
    /\ rstream = NoStream
    /\ service = NoService
    /\ inflight = NoInflight
    /\ handles = <<>>
    /\ scursor = NoCursor
    /\ last = NoCall

InitTiered ==
    /\ sut = "tiered"
    /\ items = EmptyDict
    /\ kinds \in TierKinds
    /\ stores = [i \in 1 .. NumTiers |-> NewStore(kinds[i])]
    /\ shardfn = <<>>
    /\ heap = <<>>
    /\ colls = <<>>
    /\ rstream = NoStream
    /\ service = NoService
    /\ inflight = NoInflight
    /\ handles = <<>>
    /\ scursor = NoCursor
    /\ last = NoCall

InitSharded ==
    /\ sut = "sharded"
    /\ items = EmptyDict
    /\ kinds \in ShardKinds
    /\ stores = [i \in 1 .. NumShards |-> NewStore(kinds[i])]
    /\ shardfn \in ShardingFns
    /\ heap = <<>>
    /\ colls = <<>>
    /\ rstream = NoStream
    /\ service = NoService
    /\ inflight = NoInflight
    /\ handles = <<>>
    /\ scursor = NoCursor
    /\ last = NoCall

InitDefault ==
    /\ sut \in DefaultStores
    /\ items = EmptyDict
    /\ kinds = IF sut = "mapped" THEN <<"mapped">> ELSE <<>>
    /\ stores = IF sut = "mapped" THEN <<NewService>> ELSE <<>>
    /\ shardfn = <<>>
    /\ heap = <<>>
    /\ colls = <<>>
    /\ rstream = NoStream
    /\ service = NoService
    /\ inflight = NoInflight
    /\ handles = <<>>
    /\ scursor = NoCursor
    /\ last = NoCall

InitCollections ==
    /\ sut = "collections"
    /\ items = EmptyDict
    /\ kinds = <<>>
    /\ stores = <<>>
    /\ shardfn = <<>>
    /\ heap = <<<<>>, <<>>>>
    /\ colls = <<>>
    /\ rstream = NoStream
    /\ service = NoService
    /\ inflight = NoInflight
    /\ handles = <<>>
    /\ scursor = NoCursor
    /\ last = NoCall

InitShim ==
    /\ sut = "shim"
    /\ items = EmptyDict
    /\ kinds = [i \in 1 .. ShimTiers |-> "dict"]
    /\ stores = [i \in 1 .. ShimTiers |-> NewDict]
    /\ shardfn = <<>>
    /\ heap = <<>>
    /\ colls = <<>>
    /\ rstream = NoStream
    /\ service = NoService
    /\ inflight = NoInflight
    /\ handles = <<>>
    /\ scursor = NoCursor
    /\ last = NoCall

InitStream ==
    /\ sut = "stream"
    /\ items = EmptyDict
    /\ kinds = <<>>
    /\ stores = <<>>
    /\ shardfn = <<>>
    /\ heap = <<>>
    /\ colls = <<>>
    /\ rstream = NoStream
    /\ service = NoService
    /\ inflight = NoInflight
    /\ handles = <<>>
    /\ scursor = NoCursor
    /\ last = NoCall

(* The tiers are all of the class defining __eq__, or all but the first *)
EqTierKinds ==
    {[i \in 1 .. EqTiers |-> EqKind],
     [i \in 1 .. EqTiers |-> IF i = 1 THEN "dict" ELSE EqKind]}

InitEqTiered ==
    /\ sut = "eqtiered"
    /\ items = EmptyDict
    /\ kinds \in EqTierKinds
    /\ stores = [i \in 1 .. EqTiers |-> NewStore(kinds[i])]
    /\ shardfn = <<>>
    /\ heap = <<>>
    /\ colls = <<>>
    /\ rstream = NoStream
    /\ service = NoService
    /\ inflight = NoInflight
    /\ handles = <<>>
    /\ scursor = NoCursor
    /\ last = NoCall

InitMapping ==
    /\ sut = "mapping"
    /\ items = EmptyDict
    /\ kinds = <<>>
    /\ stores = <<>>
    /\ shardfn = <<>>
    /\ heap = <<>>
    /\ colls = <<>>
    /\ rstream = NoStream
    /\ service = NoService
    /\ inflight = NoInflight
    /\ handles = <<>>
    /\ scursor = NoCursor
    /\ last = NoCall

(* An adapter of either generation over its child *)
InitAdapters == (InitBin /\ sut = "adapter") \/ InitShim

Init == InitBin \/ InitTiered \/ InitSharded \/ InitDefault \/ InitInherit \/ InitAdapted

NextBin ==
    \/ \E key \in Keys : BinGet(key)
    \/ \E key \in Keys, value \in StreamArgs : BinPut(key, value)
    \/ \E key \in Keys : BinDelete(key)
    \/ \E key \in Keys : BinContains(key)
    \/ \E query \in BinQueries : BinQuery(query)

NextTiered ==
    \/ \E key \in TierKeys, fault \in Faults({"get", "put"}) : TieredGet(key, fault)
    \/ \E key \in TierKeys, value \in Values, fault \in Faults({"put"}) :
          TieredPut(key, value, fault)
    \/ \E key \in TierKeys, fault \in Faults({"delete"}) : TieredDelete(key, fault)
    \/ \E key \in TierKeys, fault \in Faults({"get"}) : TieredContains(key, fault)
    \/ \E i \in 1 .. NumTiers, key \in TierKeys, value \in Values : MemberPut(i, key, value)
    \/ \E i \in 1 .. NumTiers, key \in TierKeys : MemberDelete(i, key)
    \/ \E query \in TierQueries : TieredQuery(query)

(* The keyed calls on the sharded store *)
NextShardedKeyed ==
    \/ \E key \in ShardKeys, fault \in Faults({"get"}) : ShardedGet(key, fault)
    \/ \E key \in ShardKeys, value \in Values, fault \in Faults({"put"}) :
          ShardedPut(key, value, fault)
    \/ \E key \in ShardKeys, fault \in Faults({"delete"}) : ShardedDelete(key, fault)
    \/ \E key \in ShardKeys, fault \in Faults({"get"}) : ShardedContains(key, fault)

(* A caller that consumes the cursor of a query before its next call on    *)
(* the store                                                               *)
NextSharded ==
    \/ scursor.state = "none" /\ NextShardedKeyed
    \/ \E query \in Queries : ShardedQuery(query)
    \/ ShardedNext

(* The queries of a caller that calls the store between two items *)
LazyQueries ==
    {[key |-> 1, offset |-> 0, limit |-> NoLimit, order |-> FALSE],
     [key |-> 1, offset |-> 1, limit |-> NoLimit, order |-> FALSE],
     [key |-> 1, offset |-> 0, limit |-> 2, order |-> FALSE],
     [key |-> 1, offset |-> 2, limit |-> 3, order |-> FALSE]}

(* A caller that calls the store at any time, also between two items of a  *)
(* cursor                                                                  *)
NextShardedLazy ==
    \/ NextShardedKeyed
    \/ \E query \in LazyQueries : ShardedQuery(query)
    \/ ShardedNext

NextDefault ==
    \/ \E key \in Keys, broken \in BOOLEAN : MappedCallGet(key, broken)
    \/ \E key \in Keys, value \in Values, broken \in BOOLEAN : MappedCallPut(key, value, broken)
    \/ \E key \in Keys, broken \in BOOLEAN : MappedCallDelete(key, broken)
    \/ \E key \in Keys, broken \in BOOLEAN : MappedCallContains(key, broken)
    \/ \E key \in Keys : NullCallGet(key)
    \/ \E key \in Keys, value \in StreamArgs : NullCallPut(key, value)
    \/ \E key \in Keys : NullCallDelete(key)
    \/ \E key \in Keys : NullCallContains(key)

NextCollections ==
    \/ \E cls \in Classes, arg \in CollArgs : Construct(cls, arg)
    \/ \E c \in 1 .. NumColls, store \in Candidates : AppendDatastore(c, store)
    \/ \E c \in 1 .. NumColls, index \in -1 .. MaxMembers, store \in Candidates :
          InsertDatastore(c, index, store)
    \/ \E c \in 1 .. NumColls, store \in MemberIds : RemoveDatastore(c, store)

NextShim ==
    \/ \E key \in TierKeys : ShimGet(key)
    \/ \E key \in TierKeys, value \in Values : ShimPut(key, value)
    \/ \E key \in TierKeys : ShimDelete(key)
    \/ \E key \in TierKeys : ShimContains(key)
    \/ \E query \in TierQueries : ShimQuery(query)
    \/ \E i \in 1 .. ShimTiers, key \in TierKeys, value \in Values : MemberPut(i, key, value)
    \/ \E i \in 1 .. ShimTiers, key \in TierKeys : MemberDelete(i, key)

NextMapping ==
    \/ \E attrs \in SUBSET ServiceAttrs, names \in {DefaultNames, RedisNames}, keyfn \in KeyFns :
          MappingConstruct(attrs, names, keyfn)
    \/ \E key \in Keys : MappingGet(key)
    \/ \E key \in Keys, value \in Values : MappingPut(key, value)
    \/ \E key \in Keys : MappingDelete(key)

NextEqTiered ==
    \/ \E key \in TierKeys : TieredGet(key, NoFault)
    \/ \E i \in 1 .. EqTiers, key \in TierKeys, value \in Values : MemberPut(i, key, value)
    \/ \E i \in 1 .. EqTiers, key \in TierKeys : MemberDelete(i, key)

(* Sequential use of the tiered store alone, with members that do not fail *)
NextTieredOnly ==
    \/ \E key \in TierKeys : TieredGet(key, NoFault)
    \/ \E key \in TierKeys, value \in Values : TieredPut(key, value, NoFault)
    \/ \E key \in TierKeys : TieredDelete(key, NoFault)
    \/ \E key \in TierKeys : TieredContains(key, NoFault)

NextAdapters == NextBin \/ NextShim

NextStream ==
    \/ \E n \in 1 .. NumChunks, failat \in 0 .. NumChunks : failat <= n /\ Open(n, failat)
    \/ Receive
    \/ Collect
    \/ Close
    \/ Cancel
    \/ \E key \in TierKeys : PutStream(key)
    \/ PutStreamRead
    \/ PutStreamCancel
    \/ \E key \in TierKeys : NullPutStream(key)
    \/ ContainsStream

Next == NextBin \/ NextTiered \/ NextSharded \/ NextDefault \/ NextInherit \/ NextAdapted

(* The stores that are written and read by key: the binary stores, the    *)
(* tiered and sharded stores and those with the inherited contains        *)
Spec == Init /\ [][Next]_vars

(* The binary DictDatastore, direct or behind an Adapter *)
SpecBin == InitBin /\ [][NextBin]_vars

(* The TieredDatastore over its members *)
SpecTiered == InitTiered /\ [][NextTiered]_vars

(* The ShardedDatastore over its members *)
SpecSharded == InitSharded /\ [][NextSharded]_vars
SpecShardedLazy == InitSharded /\ [][NextShardedLazy]_vars

(* The stores with the inherited contains *)
SpecDefault == InitDefault /\ [][NextDefault]_vars

(* Collections as containers of members *)
SpecCollections == InitCollections /\ [][NextCollections]_vars

(* binarystore.Adapter over a DictDatastore and basic.ShimDatastore over a *)
(* TieredDatastore                                                         *)
SpecAdapters == InitAdapters /\ [][NextAdapters]_vars

(* A stream and its consumers *)
SpecStream == InitStream /\ [][NextStream]_vars

(* The TieredDatastore as the only writer of its members *)
SpecTieredOnly == InitTiered /\ [][NextTieredOnly]_vars

(* The TieredDatastore over members whose class defines __eq__ *)
SpecEqTiered == InitEqTiered /\ [][NextEqTiered]_vars

(* The InterfaceMappingDatastore from its construction on *)
SpecMapping == InitMapping /\ [][NextMapping]_vars

----------------------------------------------------------------------------
(* What the claims speak of *)

(* The full result sequence of every shard for the query's namespace and   *)
(* order, one after the other in registration order.                       *)
RECURSIVE ConcatResults(_, _, _)
ConcatResults(ss, query, i) ==
    IF i > Len(ss) THEN <<>>
    ELSE StoreQuery(kinds[i], ss[i], [query EXCEPT !.offset = 0, !.limit = NoLimit]).cursor.out
            \o ConcatResults(ss, query, i + 1)

(* seq[offset : offset + limit], or seq[offset :] when the limit is unset *)
Slice(seq, offset, limit) ==
    LET first == Min(offset, Len(seq)) + 1
        end == IF limit = NoLimit THEN Len(seq) ELSE Min(offset + limit, Len(seq))
    IN  SubSeq(seq, first, end)

----------------------------------------------------------------------------
(* C1: shard pagination.  A query with offset o and limit l (or no limit)  *)
(* on the sharded store yields exactly the items at [o : o+l] of the       *)
(* concatenation of the shards' full results in registration order, in     *)
(* that order; when the query names a sort key, the same items come        *)
(* sorted.  The shards are those of a store that no put or delete changed  *)
(* while the cursor was consumed.                                          *)
C1_ShardPagination ==
    (sut = "sharded" /\ last.op = "query" /\ last.exc = "none" /\ ~last.dirty) =>
        LET slice == Slice(ConcatResults(stores, last.query, 1),
                           last.query.offset, last.query.limit)
        IN  /\ ~last.query.order => last.out = slice
            /\ last.query.order => last.out = Sorted(slice)

(* a query whose offset is used up across two shards and whose limit is    *)
(* met before the last shard                                               *)
C1_Witness ==
    /\ sut = "sharded" /\ last.op = "query" /\ ~last.query.order /\ ~last.dirty
    /\ last.query.offset = 2 /\ last.query.limit = 1
    /\ Len(last.trace) = 2
    /\ last.trace[1].skipped = 1 /\ last.trace[2].skipped = 1
    /\ Len(last.out) = 1

----------------------------------------------------------------------------
(* The value member i of the collection holds under key, or None *)
HoldsAt(ss, i, key) == Holds(kinds[i], ss[i], key)

(* The calls op on the members 1 .. n, in that order *)
CallsInOrder(op, n) == [i \in 1 .. n |-> <<i, op>>]

(* The calls of a call log, as a set *)
CallSet(calls) == {calls[n] : n \in 1 .. Len(calls)}

(* The members a call log names for op *)
Called(calls, op) == {calls[n][1] : n \in {m \in 1 .. Len(calls) : calls[m][2] = op}}

----------------------------------------------------------------------------
(* C2: tiered promotion.  When get(k) returns having found k first at tier *)
(* i, no tier before i held k, the value returned is tier i's, afterwards  *)
(* every tier before i holds k with that value, and tier i and the tiers   *)
(* after it are as they were.                                              *)
C2_TieredPromotion ==
    [][(last'.op = "get" /\ last'.exc = "none" /\ last'.hit > 0) =>
          LET i == last'.hit
              k == last'.key
          IN  /\ \A j \in 1 .. i - 1 : HoldsAt(stores, j, k) = None
              /\ last'.val = HoldsAt(stores, i, k)
              /\ \A j \in 1 .. i - 1 : HoldsAt(stores', j, k) = last'.val
              /\ \A j \in i .. Len(stores) : stores'[j] = stores[j]]_vars

(* a get that found the key in the last tier only and promoted it *)
C2_Witness ==
    /\ sut = "tiered" /\ last.op = "get" /\ last.exc = "none"
    /\ last.hit = NumTiers
    /\ Called(last.calls, "put") = 1 .. NumTiers - 1
    /\ \A j \in 1 .. NumTiers : HoldsAt(stores, j, last.key) = last.val

----------------------------------------------------------------------------
(* C3: tiered write-through.  After put(k, v) has returned without error   *)
(* every tier contains k and yields v, and the tiers were written one at a *)
(* time in tier order.                                                     *)
C3_TieredWriteThrough ==
    (sut = "tiered" /\ last.op = "put" /\ last.exc = "none") =>
        /\ \A i \in 1 .. Len(stores) :
              /\ StoreContains(kinds[i], stores[i], last.key, FALSE).flag
              /\ StoreGet(kinds[i], stores[i], last.key, FALSE).val = last.val
        /\ last.calls = CallsInOrder("put", Len(stores))

(* a put through tiers of both kinds *)
C3_Witness ==
    /\ sut = "tiered" /\ last.op = "put" /\ last.exc = "none"
    /\ \E i \in 1 .. NumTiers : kinds[i] = "mapped"
    /\ \A i \in 1 .. NumTiers : HoldsAt(stores, i, last.key) = NumVals

----------------------------------------------------------------------------
(* C4: tiered partial failure.  When the put on tier j fails during        *)
(* put(k, v), the caller gets tier j's error, every tier before j holds v, *)
(* and no tier after j is called or changed.                               *)
C4_TieredPartialFailure ==
    [][(last'.op = "put" /\ last'.exc # "none") =>
          LET j == last'.at
              k == last'.key
          IN  /\ j \in 1 .. Len(stores)
              /\ last'.exc = StorePut(kinds[j], stores[j], k, last'.val, TRUE).exc
              /\ \A i \in 1 .. j - 1 : HoldsAt(stores', i, k) = last'.val
              /\ \A i \in j + 1 .. Len(stores) : stores'[i] = stores[i]
              /\ last'.calls = CallsInOrder("put", j)]_vars

(* a put that failed at the middle tier: the first tier has the new value, *)
(* the last tier has not                                                   *)
C4_Witness ==
    /\ sut = "tiered" /\ last.op = "put" /\ last.exc = "Internal"
    /\ last.at = 2
    /\ HoldsAt(stores, 1, last.key) = last.val
    /\ HoldsAt(stores, NumTiers, last.key) # last.val

----------------------------------------------------------------------------
(* C5: promotion failures are suppressed.  A get that found the key at a   *)
(* tier returns that value to its caller, also when a promotion put into   *)
(* an earlier tier failed.                                                 *)
C5_PromotionFailureSuppressed ==
    (sut = "tiered" /\ last.op = "get" /\ last.hit > 0) =>
        /\ last.exc = "none"
        /\ last.val = HoldsAt(stores, last.hit, last.key)

----------------------------------------------------------------------------
(* C6: tiered delete tolerates missing tiers.  Unless a tier reports an    *)
(* error other than NotFound, delete(k) succeeds, has called delete on     *)
(* every tier in tier order, and leaves no tier holding k.                 *)
C6_TieredDeleteTolerant ==
    (sut = "tiered" /\ last.op = "delete" /\ last.exc # "Internal") =>
        /\ last.exc = "none"
        /\ last.calls = CallsInOrder("delete", Len(stores))
        /\ \A i \in 1 .. Len(stores) : HoldsAt(stores, i, last.key) = None

----------------------------------------------------------------------------
(* C7: tiered first-hit read.  A get on which no tier fails calls get on   *)
(* the tiers in index order up to the first tier that holds k and on none  *)
(* after it, and returns that tier's value; when no tier holds k it        *)
(* returns None (not found), having put to no tier and changed no tier's   *)
(* holdings.                                                               *)
Holders(ss, key) == {i \in 1 .. Len(ss) : HoldsAt(ss, i, key) # None}
Lowest(S) == CHOOSE i \in S : \A j \in S : i <= j

C7_TieredFirstHit ==
    [][(last'.op = "get" /\ last'.exc = "none") =>
          LET k == last'.key
              held == Holders(stores, k)
          IN  IF held = {}
              THEN /\ last'.val = None /\ last'.hit = 0
                   /\ last'.calls = CallsInOrder("get", Len(stores))
                   /\ \A i \in 1 .. Len(stores), key \in TierKeys :
                         HoldsAt(stores', i, key) = HoldsAt(stores, i, key)
              ELSE /\ last'.hit = Lowest(held)
                   /\ last'.val = HoldsAt(stores, Lowest(held), k)
                   /\ SubSeq(last'.calls, 1, Lowest(held)) = CallsInOrder("get", Lowest(held))
                   /\ Called(last'.calls, "get") = 1 .. Lowest(held)]_vars

(* a get that passed a tier without the key and stopped at the second,     *)
(* though the third holds another value; and a get that found nothing      *)
C7_Witness ==
    /\ sut = "tiered" /\ last.op = "get" /\ last.exc = "none"
    /\ last.hit = 2
    /\ HoldsAt(stores, NumTiers, last.key) \notin {None, last.val}

----------------------------------------------------------------------------
(* What get(key) yields on the store under test when its members are in    *)
(* state ss (its is the binary store's _items) and no member fails:        *)
(* the bytes or NoBytes (KeyError) on the binary stores, the value or None *)
(* on the basic stores.                                                    *)
BinGetOf(its, key) == IF sut = "dict" THEN BinDictGet(its, key) ELSE AdapterGet(its, key)
BinContainsOf(its, key) ==
    IF sut = "dict" THEN BinDictContains(its, key) ELSE AdapterContains(its, key)

YieldBin(its, key) ==
    LET r == BinGetOf(its, key) IN IF r.exc = "none" THEN collect(r.stream) ELSE NoBytes

YieldBasic(ss, key) ==
    IF sut = "tiered" THEN TieredGetImpl(kinds, ss, key, NoFault).val
    ELSE ShardedGetImpl(shardfn, kinds, ss, key, NoFault).val

BasicKeys == IF sut = "tiered" THEN TierKeys ELSE ShardKeys

----------------------------------------------------------------------------
(* C8: round trip, last write wins.  On every store of the layer, a put    *)
(* that returns makes get(k) yield exactly the value put and changes what  *)
(* get yields for no other key; a delete that returns makes get(k) signal  *)
(* not-found and changes no other key; get, contains, query and the next   *)
(* of a cursor change what get yields for no key.  So after any sequence of puts and deletes get(k)    *)
(* yields the value of the last put(k, .) not followed by a delete(k).     *)
C8_RoundTrip ==
    [][/\ (sut \in BinStores /\ last'.exc = "none") =>
             /\ last'.op = "put" =>
                   /\ YieldBin(items', last'.key) = last'.bytes
                   /\ \A k \in Keys \ {last'.key} : YieldBin(items', k) = YieldBin(items, k)
             /\ last'.op = "delete" =>
                   /\ YieldBin(items', last'.key) = NoBytes
                   /\ \A k \in Keys \ {last'.key} : YieldBin(items', k) = YieldBin(items, k)
             /\ last'.op \in {"get", "contains"} =>
                   \A k \in Keys : YieldBin(items', k) = YieldBin(items, k)
       /\ (sut \in {"tiered", "sharded"} /\ last'.exc = "none") =>
             /\ last'.op = "put" =>
                   /\ YieldBasic(stores', last'.key) = last'.val
                   /\ \A k \in BasicKeys \ {last'.key} :
                         YieldBasic(stores', k) = YieldBasic(stores, k)
             /\ last'.op = "delete" =>
                   /\ YieldBasic(stores', last'.key) = None
                   /\ \A k \in BasicKeys \ {last'.key} :
                         YieldBasic(stores', k) = YieldBasic(stores, k)
             /\ last'.op \in {"get", "contains", "query", "cursor", "next"} =>
                   \A k \in BasicKeys : YieldBasic(stores', k) = YieldBasic(stores, k)]_vars

(* a put through the adapter of a value given in two chunks, over a store  *)
(* that holds another key with another value                               *)
C8_Witness ==
    /\ sut = "adapter" /\ last.op = "put" /\ last.exc = "none"
    /\ last.bytes = <<1, 2>>
    /\ YieldBin(items, last.key) = <<1, 2>>
    /\ \E k \in Keys \ {last.key} : YieldBin(items, k) = <<1>>

----------------------------------------------------------------------------
(* Whether contains(key) is true on a basic store whose members are in     *)
(* state ss and do not fail.                                               *)
ContainsBasic(ss, key) ==
    IF sut = "tiered" THEN TieredContainsImpl(kinds, ss, key, 1, NoFault, <<>>).flag
    ELSE ShardedContainsImpl(shardfn, kinds, ss, key, NoFault).flag

----------------------------------------------------------------------------
(* C9: delete removes the key.  After delete(k) has succeeded on a store   *)
(* that held k, contains(k) is false and get(k) signals not-found          *)
(* (KeyError on the binary stores, None on the basic ones); and a key that *)
(* get does not find is found again only after a put of that key on the    *)
(* store.                                                                  *)
C9_DeleteRemoves ==
    [][/\ sut \in BinStores =>
             /\ (last'.op = "delete" /\ last'.exc = "none" /\ BinContainsOf(items, last'.key).flag) =>
                   /\ ~BinContainsOf(items', last'.key).flag
                   /\ BinGetOf(items', last'.key).exc = "KeyError"
             /\ \A k \in Keys :
                   (BinGetOf(items, k).exc = "KeyError" /\ BinGetOf(items', k).exc = "none") =>
                       (last'.op = "put" /\ last'.key = k)
       /\ sut \in {"tiered", "sharded"} =>
             /\ (last'.op = "delete" /\ last'.exc = "none" /\ YieldBasic(stores, last'.key) # None) =>
                   /\ ~ContainsBasic(stores', last'.key)
                   /\ YieldBasic(stores', last'.key) = None
             /\ \A k \in BasicKeys :
                   (last'.op # "member" /\ YieldBasic(stores, k) = None
                        /\ YieldBasic(stores', k) # None) =>
                       (last'.op = "put" /\ last'.key = k)]_vars

(* a delete through the adapter that succeeded while another key of the    *)
(* namespace stays                                                         *)
C9_Witness ==
    /\ sut = "adapter" /\ last.op = "delete" /\ last.exc = "none"
    /\ ~BinContainsOf(items, last.key).flag
    /\ \E k \in Keys \ {last.key} : KeyPath(k) = KeyPath(last.key) /\ BinContainsOf(items, k).flag

----------------------------------------------------------------------------
(* C10: deleting a nonexistent key.  On every store, delete(k) of a key    *)
(* the store does not hold raises KeyError (unless a member failed         *)
(* internally) and leaves what the store shows unchanged: contains(k)      *)
(* stays false, the length and every other key's value are as before.      *)
C10_DeleteMissing ==
    [][/\ (sut \in BinStores /\ last'.op = "delete" /\ ~BinContainsOf(items, last'.key).flag) =>
             /\ last'.exc = "KeyError"
             /\ \A k \in Keys :
                   /\ BinContainsOf(items', k).flag = BinContainsOf(items, k).flag
                   /\ YieldBin(items', k) = YieldBin(items, k)
             /\ BinDictLen(items') = BinDictLen(items)
       /\ (sut \in {"tiered", "sharded"} /\ last'.op = "delete" /\ last'.exc # "Internal"
              /\ ~ContainsBasic(stores, last'.key)) =>
             /\ last'.exc = "KeyError"
             /\ ~ContainsBasic(stores', last'.key)
             /\ \A k \in BasicKeys : YieldBasic(stores', k) = YieldBasic(stores, k)]_vars

----------------------------------------------------------------------------
(* C11: contains default.  On a store that inherits contains, a call of    *)
(* contains(k) whose underlying get does not fail internally raises        *)
(* nothing and answers whether the store holds k: false where get signals  *)
(* not-found, true where get gives a value.                                *)
C11_ContainsDefault ==
    [][(sut \in DefaultStores /\ last'.op = "contains" /\ last'.exc # "Internal") =>
          /\ last'.exc = "none"
          /\ sut = "mapped" => last'.flag = (Holds("mapped", stores[1], last'.key) # None)
          /\ sut = "null" => last'.flag = FALSE
          /\ stores' = stores]_vars

(* both answers of the inherited contains on the mapped store *)
C11_Witness ==
    /\ sut = "mapped" /\ last.op = "contains" /\ last.exc = "none" /\ last.flag
    /\ \E k \in Keys : Holds("mapped", stores[1], k) = None

----------------------------------------------------------------------------
(* The faults under which member i is called with an operation that fails  *)
SomeFault(ops) == Faults(ops) \ {NoFault}

(* The last entry of a call log *)
LastOf(calls) == calls[Len(calls)]

(* C12: internal errors are never collapsed into not-found.  Whenever the  *)
(* service behind a member fails internally in a call that a layer makes   *)
(* on it, the layer's own call raises the internal error: the inherited    *)
(* contains of the mapped store and of a binary store, the Adapter's get,  *)
(* put, delete, contains and query, the tiered store's get (scan and       *)
(* promotion), put, delete and contains, which make no further call on any *)
(* tier, and the sharded store's get, put, delete, contains and query,     *)
(* whose cursor raises when it reaches the failing shard.                  *)
C12_InternalSurfaces ==
    [][/\ sut = "inherit" =>
             /\ (last'.op = "get" /\ InheritCallGet(last'.key, TRUE)) =>
                   (last'.exc = "Internal" /\ handles' = handles)
             /\ (last'.op = "contains" /\ InheritCallContains(last'.key, TRUE)) =>
                   (last'.exc = "Internal" /\ ~last'.flag)
       /\ sut = "adapted" =>
             /\ (last'.op = "get" /\ AdaptedGet(last'.key, TRUE)) =>
                   (last'.exc = "Internal" /\ last'.bytes = NoBytes)
             /\ \A v \in StreamArgs : (last'.op = "put" /\ AdaptedPut(last'.key, v, TRUE)) =>
                   (last'.exc = "Internal" /\ items' = items)
             /\ (last'.op = "delete" /\ AdaptedDelete(last'.key, TRUE)) =>
                   (last'.exc = "Internal" /\ items' = items)
             /\ (last'.op = "contains" /\ AdaptedContains(last'.key, TRUE)) =>
                   (last'.exc = "Internal" /\ ~last'.flag)
             /\ (last'.op = "query" /\ AdaptedQuery(last'.query, TRUE)) =>
                   last'.exc = "Internal"
       /\ sut = "mapped" =>
             /\ (last'.op = "get" /\ MappedCallGet(last'.key, TRUE)) => last'.exc = "Internal"
             /\ (last'.op = "contains" /\ MappedCallContains(last'.key, TRUE)) => (last'.exc = "Internal" /\ ~last'.flag)
             /\ \A v \in Values : (last'.op = "put" /\ MappedCallPut(last'.key, v, TRUE)) => last'.exc = "Internal"
             /\ (last'.op = "delete" /\ MappedCallDelete(last'.key, TRUE)) => last'.exc = "Internal"
       /\ sut = "tiered" =>
             /\ \A f \in SomeFault({"get", "put"}) :
                   (last'.op = "get" /\ TieredGet(last'.key, f) /\ <<f.at, f.op>> \in CallSet(last'.calls)) =>
                       /\ last'.exc = "Internal" /\ last'.val = None
                       /\ LastOf(last'.calls) = <<f.at, f.op>>
             /\ \A f \in SomeFault({"put"}) :
                   (last'.op = "put" /\ TieredPut(last'.key, last'.val, f) /\ <<f.at, "put">> \in CallSet(last'.calls)) =>
                       /\ last'.exc = "Internal"
                       /\ LastOf(last'.calls) = <<f.at, "put">>
             /\ \A f \in SomeFault({"delete"}) :
                   (last'.op = "delete" /\ TieredDelete(last'.key, f) /\ <<f.at, "delete">> \in CallSet(last'.calls)) =>
                       /\ last'.exc = "Internal"
                       /\ LastOf(last'.calls) = <<f.at, "delete">>
             /\ \A f \in SomeFault({"get"}) :
                   (last'.op = "contains" /\ TieredContains(last'.key, f) /\ <<f.at, "contains">> \in CallSet(last'.calls)) =>
                       /\ last'.exc = "Internal" /\ ~last'.flag
                       /\ LastOf(last'.calls) = <<f.at, "contains">>
       /\ sut = "sharded" =>
             /\ \A f \in SomeFault({"get"}) :
                   (last'.op = "get" /\ ShardedGet(last'.key, f) /\ f.at = last'.at) =>
                       (last'.exc = "Internal" /\ last'.val = None)
             /\ \A f \in SomeFault({"put"}) :
                   (last'.op = "put" /\ ShardedPut(last'.key, last'.val, f) /\ f.at = last'.at) =>
                       last'.exc = "Internal"
             /\ \A f \in SomeFault({"delete"}) :
                   (last'.op = "delete" /\ ShardedDelete(last'.key, f) /\ f.at = last'.at) => last'.exc = "Internal"
             /\ \A f \in SomeFault({"get"}) :
                   (last'.op = "contains" /\ ShardedContains(last'.key, f) /\ f.at = last'.at) =>
                       (last'.exc = "Internal" /\ ~last'.flag)
             /\ (last'.op = "query" /\ \E n \in 1 .. Len(last'.trace) :
                      kinds[last'.trace[n].shard] = "mapped") =>
                   /\ last'.exc = "NotImplemented"
                   /\ last'.trace[Len(last'.trace)].returned = 0
                   /\ last'.query.order => last'.out = <<>>]_vars

(* a tiered get whose second tier failed internally after the first tier   *)
(* had missed: the scan stopped there although the last tier holds the key *)
C12_Witness ==
    /\ sut = "tiered" /\ last.op = "get" /\ last.exc = "Internal"
    /\ last.calls = <<<<1, "get">>, <<2, "get">>>>
    /\ HoldsAt(stores, 3, last.key) # None

----------------------------------------------------------------------------
(* C13: sharded routing touches exactly one shard.  Each get, put, delete  *)
(* and contains on key k acts on the shard whose index is congruent to     *)
(* shardingfn(k) modulo the number of shards, which depends on the key     *)
(* alone, and leaves every other shard as it was.                          *)
C13_ShardedRouting ==
    [][(sut = "sharded" /\ last'.op \in {"get", "put", "delete", "contains"}) =>
          LET n == Len(stores)
              i == last'.at
          IN  /\ i \in 1 .. n
              /\ \E q \in -NumShardKeys .. NumShardKeys : shardfn[last'.key] = q * n + (i - 1)
              /\ \A j \in 1 .. n : j # i => stores'[j] = stores[j]
              /\ Len(stores') = n /\ shardfn' = shardfn]_vars

(* a put routed by a negative sharding value that changed its shard while  *)
(* another shard holds a key                                               *)
C13_Witness ==
    /\ sut = "sharded" /\ last.op = "put" /\ last.exc = "none"
    /\ shardfn[last.key] < 0
    /\ HoldsAt(stores, last.at, last.key) = last.val
    /\ \E j \in 1 .. Len(stores), k \in ShardKeys : j # last.at /\ HoldsAt(stores, j, k) # None

----------------------------------------------------------------------------
(* The number of items the first m shard queries of a trace returned *)
RECURSIVE SumReturned(_, _)
SumReturned(trace, m) ==
    IF m = 0 THEN 0 ELSE trace[m].returned + SumReturned(trace, m - 1)

(* The shard queries a state knows of: those of the cursor the caller      *)
(* holds, or those of the query that has just ended                        *)
IssuedTrace == IF scursor.state \in {"new", "open"} THEN scursor.trace ELSE last.trace

(* C14: sharded query early stop.  A query whose cursor is exhausted has   *)
(* queried the shards 1, 2, .. in registration order, a prefix of the      *)
(* shards: all of them when the limit is unset; with a limit, a further    *)
(* shard exactly while the shards before it have returned fewer items than *)
(* the limit.  A shard is queried only when the caller has taken every     *)
(* item of the shard before it.                                            *)
C14_ShardedEarlyStop ==
    [][/\ (sut = "sharded" /\ last'.op = "query" /\ last'.exc = "none") =>
             LET t == last'.trace
                 n == Len(t)
                 limit == last'.query.limit
             IN  /\ n \in 1 .. Len(stores)
                 /\ \A m \in 1 .. n : t[m].shard = m
                 /\ limit = NoLimit => n = Len(stores)
                 /\ limit # NoLimit =>
                       /\ \A m \in 1 .. n - 1 : SumReturned(t, m) < limit
                       /\ n < Len(stores) => SumReturned(t, n) >= limit
       /\ (sut = "sharded" /\ last'.op = "next" /\ scursor.buf # <<>>) =>
             /\ Len(scursor'.trace) = Len(scursor.trace)
             /\ last'.val = Head(scursor.buf)
       /\ (sut = "sharded" /\ last'.op = "cursor") => scursor'.trace = <<>>]_vars

(* a cursor whose limit was met by the first two shards, between whose     *)
(* items the caller made a put on the third shard: the third was not       *)
(* queried                                                                 *)
C14_Witness ==
    /\ sut = "sharded" /\ last.op = "query" /\ last.exc = "none" /\ last.dirty
    /\ last.query.limit = 2 /\ Len(last.trace) = 2 /\ Len(stores) > 2
    /\ last.trace[1].returned = 1 /\ last.trace[2].returned = 1
    /\ \E k \in ShardKeys : HoldsAt(stores, 3, k) # None

----------------------------------------------------------------------------
(* C15: tiered contains has no side effect.  A contains(k) that returns    *)
(* is true exactly when some tier holds k, has asked the tiers in order up *)
(* to the first that holds k (all of them when none does), and leaves what *)
(* every tier holds under every key unchanged.                             *)
C15_TieredContains ==
    [][(sut = "tiered" /\ last'.op = "contains" /\ last'.exc = "none") =>
          LET k == last'.key
              H == Holders(stores, k)
          IN  /\ last'.flag = (H # {})
              /\ last'.calls = CallsInOrder("contains", IF H = {} THEN Len(stores) ELSE Lowest(H))
              /\ \A i \in 1 .. Len(stores), k2 \in TierKeys :
                    HoldsAt(stores', i, k2) = HoldsAt(stores, i, k2)]_vars

(* a contains answered by the second tier: the first does not hold the key *)
(* and still does not, the third was not asked                             *)
C15_Witness ==
    /\ sut = "tiered" /\ last.op = "contains" /\ last.exc = "none" /\ last.flag
    /\ last.calls = CallsInOrder("contains", 2)
    /\ HoldsAt(stores, 1, last.key) = None
    /\ HoldsAt(stores, 3, last.key) # None

----------------------------------------------------------------------------
(* The values a member holds, as a set *)
HeldValues(ss, i) == {HoldsAt(ss, i, k) : k \in TierKeys} \ {None}

(* C16: tiered query uses only the last tier.  query(q) makes one call,    *)
(* the query q on the last tier, changes no tier, and what it gives (the   *)
(* items or the error) is what the last tier's query gives: every item is  *)
(* a value of the last tier, whatever the tiers before it hold.            *)
C16_TieredQueryLast ==
    [][(sut = "tiered" /\ last'.op = "query") =>
          LET n == Len(stores)
          IN  /\ last'.calls = <<<<n, "query">>>>
              /\ stores' = stores
              /\ kinds[n] = "dict" =>
                    /\ last'.exc = "none"
                    /\ last'.out = DictQuery(stores[n], last'.query).out
                    /\ \A m \in 1 .. Len(last'.out) : last'.out[m] \in HeldValues(stores, n)
              /\ kinds[n] = "mapped" => last'.exc = "NotImplemented"]_vars

(* a query that gave the last tier's only value while the first tier holds *)
(* another value                                                           *)
C16_Witness ==
    /\ sut = "tiered" /\ last.op = "query" /\ last.exc = "none"
    /\ Len(last.out) = 1
    /\ HeldValues(stores, 1) # {}
    /\ last.out[1] \notin HeldValues(stores, 1)

----------------------------------------------------------------------------
(* C17: fresh member list per collection.  A call of append, insert or     *)
(* remove on one collection leaves the members of every other collection   *)
(* that, like it, was constructed without a list of stores, unchanged.     *)
C17_FreshMemberList ==
    [][(sut = "collections" /\ last'.op \in {"append", "insert", "remove"}) =>
          \A c \in 1 .. Len(colls) :
              (c # last'.coll /\ ~colls[c].given /\ ~colls[last'.coll].given) =>
                  Members(heap', colls', c) = Members(heap, colls, c)]_vars

----------------------------------------------------------------------------
(* A sequence without its element at position i *)
Without(l, i) == SubSeq(l, 1, i - 1) \o SubSeq(l, i + 1, Len(l))

(* C18: collection registration is validated.  Construction, append and    *)
(* insert raise TypeError for a candidate that is not a Datastore and then *)
(* change no member list; every member of every collection is a Datastore; *)
(* a construction that succeeds with a list has its members in the list's  *)
(* order, append adds the store at the end, insert places it at the given  *)
(* index (0 .. the length), and insert and remove keep the other members   *)
(* in their order.                                                         *)
C18_RegistrationValidated ==
    [][sut = "collections" =>
          LET c == last'.coll
              store == last'.store
              old == Members(heap, colls, c)
              new == Members(heap', colls', c)
          IN  /\ (last'.op = "construct"
                     /\ \E n \in 1 .. Len(last'.given) : last'.given[n] \notin MemberIds) =>
                    (last'.exc = "TypeError" /\ heap' = heap /\ colls' = colls)
              /\ (last'.op \in {"append", "insert"} /\ store \notin MemberIds) =>
                    (last'.exc = "TypeError" /\ heap' = heap)
              /\ \A d \in 1 .. Len(colls') :
                    \A n \in 1 .. Len(Members(heap', colls', d)) :
                        Members(heap', colls', d)[n] \in MemberIds
              /\ (last'.op = "construct" /\ last'.exc = "none" /\ colls'[c].given) =>
                    new = last'.given
              /\ (last'.op = "append" /\ last'.exc = "none") => new = Append(old, store)
              /\ (last'.op = "insert" /\ last'.exc = "none") =>
                    /\ \E i \in 1 .. Len(new) : new[i] = store /\ Without(new, i) = old
                    /\ last'.index \in 0 .. Len(old) =>
                          (new[last'.index + 1] = store /\ Without(new, last'.index + 1) = old)
              /\ (last'.op = "remove" /\ last'.exc = "none") =>
                    \E i \in 1 .. Len(old) : old[i] = store /\ Without(old, i) = new]_vars

(* an append of something that is not a Datastore, rejected by a           *)
(* collection that was constructed with a list of two stores               *)
C18_Witness ==
    /\ sut = "collections" /\ last.op = "append" /\ last.exc = "TypeError"
    /\ last.store = NotAStore
    /\ colls[last.coll].given
    /\ Members(heap, colls, last.coll) = <<2, 1>>

----------------------------------------------------------------------------
(* C19: an adapter that overrides nothing forwards unchanged.  Every get,  *)
(* put, delete, contains and query made on the adapter leaves the child in *)
(* the state, and returns the result or error, that the same call made on  *)
(* the child directly gives: for binarystore.Adapter over a DictDatastore  *)
(* and for basic.ShimDatastore over a TieredDatastore.                     *)
C19_AdapterForwards ==
    [][/\ sut = "adapter" =>
            /\ (last'.op = "get" /\ BinGet(last'.key)) =>
                  LET d == BinDictGet(items, last'.key)
                  IN  /\ items' = d.items /\ last'.exc = d.exc
                      /\ d.exc = "none" => last'.bytes = collect(d.stream)
            /\ \A value \in StreamArgs :
                  (last'.op = "put" /\ BinPut(last'.key, value)) =>
                      LET d == BinDictPut(items, last'.key, value)
                      IN  items' = d.items /\ last'.exc = d.exc
            /\ (last'.op = "delete" /\ BinDelete(last'.key)) =>
                  LET d == BinDictDelete(items, last'.key)
                  IN  items' = d.items /\ last'.exc = d.exc
            /\ (last'.op = "contains" /\ BinContains(last'.key)) =>
                  LET d == BinDictContains(items, last'.key)
                  IN  items' = d.items /\ last'.exc = d.exc /\ last'.flag = d.flag
       /\ sut = "shim" =>
            /\ last'.op = "get" =>
                  LET d == TieredGetImpl(kinds, stores, last'.key, NoFault)
                  IN  stores' = d.stores /\ last'.exc = d.exc /\ last'.val = d.val
                      /\ last'.calls = d.calls
            /\ last'.op = "put" =>
                  LET d == TieredPutImpl(kinds, stores, last'.key, last'.val, 1, NoFault, <<>>)
                  IN  stores' = d.stores /\ last'.exc = d.exc /\ last'.calls = d.calls
            /\ last'.op = "delete" =>
                  LET d == TieredDeleteImpl(kinds, stores, last'.key, 1, NoFault, <<>>)
                  IN  stores' = d.stores /\ last'.exc = d.exc /\ last'.calls = d.calls
            /\ last'.op = "contains" =>
                  LET d == TieredContainsImpl(kinds, stores, last'.key, 1, NoFault, <<>>)
                  IN  stores' = d.stores /\ last'.exc = d.exc /\ last'.flag = d.flag
                      /\ last'.calls = d.calls
            /\ last'.op = "query" =>
                  LET d == TieredQueryImpl(kinds, stores, last'.query)
                  IN  stores' = stores /\ last'.exc = d.exc /\ last'.out = d.out
                      /\ last'.calls = d.calls]_vars

----------------------------------------------------------------------------
(* C20: stream single release.  On every path a stream takes its resource  *)
(* is released exactly once: at most once, and exactly when the stream has *)
(* reached exhausted or closed, which a stream that its consumer has let   *)
(* go has done; whatever is done to a stream in a terminal state (a second *)
(* close included) leaves its state and the release count as they are and  *)
(* does not fail; collect and a put that return end the open stream they   *)
(* were given (exhausted unless the source raised or the put was           *)
(* cancelled, closed then), and close, cancellation and the inherited      *)
(* contains close an open stream however many chunks were read.            *)
C20_StreamSingleRelease ==
    [][sut = "stream" =>
          /\ rstream'.released <= 1
          /\ rstream'.released = 1 <=> rstream'.state \in Terminal
          /\ rstream'.dropped => rstream'.released = 1
          /\ (rstream.state \in Terminal /\ last'.op # "open") =>
                /\ rstream'.state = rstream.state
                /\ rstream'.released = rstream.released
                /\ last'.exc = "none"
          /\ (last'.op \in {"collect", "put"} /\ rstream.state = "open") =>
                /\ rstream'.state \in Terminal
                /\ last'.exc = "none" => (rstream'.state = "exhausted" /\ rstream'.pos = rstream'.n)
                /\ last'.exc # "none" => rstream'.state = "closed"
          /\ (last'.op = "receive" /\ last'.exc # "none") => rstream'.state = "closed"
          /\ (last'.op \in {"close", "cancel", "contains"} /\ rstream.state = "open") =>
                rstream'.state = "closed"]_vars

----------------------------------------------------------------------------
(* C21: the foreign-service adapter is validated at construction.  Over a  *)
(* service lacking one of the three named methods the construction raises  *)
(* (AttributeError) and there is no store to call; after a construction    *)
(* that succeeded every get, put and delete is one call of the method      *)
(* bound for it, on the key projected by the key function: get gives what  *)
(* the service holds there (None when nothing), put stores the value       *)
(* there, delete removes it, and nothing else held by the service changes. *)
C21_MappingValidated ==
    [][sut = "mapping" =>
          LET sk == ProjectKey(service.keyfn, last'.key)
              others == (DOMAIN service.data \cup DOMAIN service'.data) \ {sk}
          IN  /\ last'.op = "construct" =>
                    /\ (\E op \in {"get", "put", "delete"} :
                            service'.ops[op] \notin service'.attrs) =>
                          (last'.exc = "AttributeError" /\ service'.state = "failed")
                    /\ (\A op \in {"get", "put", "delete"} :
                            service'.ops[op] \in service'.attrs) =>
                          (last'.exc = "none" /\ service'.state = "built")
              /\ last'.op \in {"get", "put", "delete"} =>
                    /\ service.state = "built"
                    /\ \A op \in {"get", "put", "delete"} : service.ops[op] \in service.attrs
                    /\ last'.calls = <<<<service.ops[last'.op], sk>>>>
                    /\ \A k \in others :
                          k \in DOMAIN service.data /\ k \in DOMAIN service'.data
                              /\ service'.data[k] = service.data[k]
              /\ last'.op = "get" =>
                    /\ service'.data = service.data
                    /\ last'.val = IF sk \in DOMAIN service.data THEN service.data[sk] ELSE None
              /\ last'.op = "put" =>
                    sk \in DOMAIN service'.data /\ service'.data[sk] = last'.val
              /\ (last'.op = "delete" /\ last'.exc = "none") =>
                    sk \notin DOMAIN service'.data]_vars

(* a store built with put bound to the service's set, after a put; and a   *)
(* construction that failed                                                *)
C21_Witness ==
    /\ sut = "mapping" /\ service.state = "built"
    /\ service.ops.put = "set" /\ "put" \notin service.attrs
    /\ service.keyfn = "name"
    /\ last.op = "put" /\ last.calls = <<<<"set", last.key[2]>>>>

----------------------------------------------------------------------------
RECURSIVE SumSkipped(_, _)
SumSkipped(trace, m) ==
    IF m = 0 THEN 0 ELSE trace[m].skipped + SumSkipped(trace, m - 1)

(* C22: running offset and limit of the sharded query.  With o and l the   *)
(* offset and limit of the query given, the m-th shard is queried with     *)
(* offset max(o - S, 0) and, when a limit is set, limit l - R, S and R     *)
(* being what the cursors of the shards before it skipped and returned;    *)
(* no shard is queried with a negative offset or limit, or with a limit of *)
(* zero; without a limit every shard is queried without one.               *)
C22_RunningOffsetLimit ==
    (sut = "sharded" /\ (last.op = "query" \/ scursor.state = "open")) =>
        LET t == IssuedTrace
            o == IF scursor.state = "open" THEN scursor.query.offset ELSE last.query.offset
            l == IF scursor.state = "open" THEN scursor.query.limit ELSE last.query.limit
        IN  \A m \in 1 .. Len(t) :
                /\ t[m].offset = Max(o - SumSkipped(t, m - 1), 0)
                /\ t[m].offset >= 0
                /\ l = NoLimit => t[m].limit = NoLimit
                /\ l # NoLimit =>
                      (t[m].limit = l - SumReturned(t, m - 1) /\ t[m].limit > 0)

(* offset 2 and limit 3 over shards of which the first holds one item and  *)
(* the second gives one: the second shard is queried with offset 1, the    *)
(* third with offset 0 and limit 2                                         *)
C22_Witness ==
    /\ sut = "sharded" /\ last.op = "query" /\ last.exc = "none"
    /\ last.query.offset = 2 /\ last.query.limit = 3
    /\ Len(last.trace) = 3
    /\ last.trace[2].offset = 1 /\ last.trace[2].returned = 1
    /\ last.trace[3].offset = 0 /\ last.trace[3].limit = 2

----------------------------------------------------------------------------
(* C23: promotion stops by identity.  When get(k) has found k at tier i,   *)
(* every tier before i has received the value, also when a tier before i   *)
(* is another instance that compares equal to tier i; tier i and the tiers *)
(* after it are not written.                                               *)
C23_PromotionByIdentity ==
    [][(sut = "eqtiered" /\ last'.op = "get" /\ last'.exc = "none" /\ last'.hit > 0) =>
          /\ \A j \in 1 .. last'.hit - 1 : HoldsAt(stores', j, last'.key) = last'.val
          /\ \A j \in last'.hit .. Len(stores) : stores'[j] = stores[j]]_vars

----------------------------------------------------------------------------
(* C24: length tracks live keys.  On the binary DictDatastore the length   *)
(* is the number of keys get finds, it is 0 on the new store, a put of a   *)
(* key not held adds one, a put over a key held leaves it, a delete that   *)
(* succeeds takes one away, and a delete that fails, get, contains and     *)
(* query leave it as it is.                                                *)
C24_LengthTracksKeys ==
    [][sut = "dict" =>
          LET len == BinDictLen(items)
              len1 == BinDictLen(items')
              held == BinDictGet(items, last'.key).exc = "none"
          IN  /\ items = EmptyDict => len = 0
              /\ len1 = Cardinality({k \in Keys : BinDictGet(items', k).exc = "none"})
              /\ (last'.op = "put" /\ ~held) => len1 = len + 1
              /\ (last'.op = "put" /\ held) => len1 = len
              /\ (last'.op = "delete" /\ last'.exc = "none") => len1 = len - 1
              /\ (last'.op = "delete" /\ last'.exc # "none") => len1 = len
              /\ last'.op \in {"get", "contains", "query"} => len1 = len]_vars

(* a delete that failed on a store holding one key, in the namespace the   *)
(* delete looked in, and a namespace that a get or contains left empty     *)
C24_Witness ==
    /\ sut = "dict" /\ last.op = "delete" /\ last.exc = "KeyError"
    /\ BinDictLen(items) = 1
    /\ \E p \in DOMAIN items : Cardinality(DOMAIN items[p]) = 0
    /\ Cardinality(DOMAIN items[KeyPath(last.key)]) = 1

----------------------------------------------------------------------------
(* C25: the caller's query is not mutated by sharded pagination.  After    *)
(* query(q) on the sharded store, while its cursor is consumed and when it *)
(* has returned or raised, q has the offset, limit and other fields it had *)
(* before the call, and q issued again and consumed on the unchanged store *)
(* gives the same result.                                                  *)
C25_QueryNotMutated ==
    /\ (sut = "sharded" /\ scursor.state \in {"new", "open"}) =>
           scursor.objs[1] = scursor.query
    /\ (sut = "sharded" /\ last.op = "query") =>
           /\ last.qafter = last.query
           /\ ~last.dirty =>
                 LET again == Drain(kinds, stores, NewCursor(last.qafter))
                     given == IF last.qafter.order THEN Materialized(again) ELSE again
                 IN  given.out = last.out /\ given.exc = last.exc

(* a query whose running copy went to the third shard with a smaller       *)
(* offset and a smaller limit than the caller's                            *)
C25_Witness ==
    /\ sut = "sharded" /\ last.op = "query" /\ last.exc = "none"
    /\ Len(last.trace) = 3
    /\ last.trace[3].offset < last.query.offset
    /\ last.query.limit # NoLimit /\ last.trace[3].limit < last.query.limit
    /\ last.qafter = last.query /\ ~last.dirty

----------------------------------------------------------------------------
(* C26: tier agreement under sequential use.  Starting from empty tiers,   *)
(* with every call made on the tiered store, one at a time, and no tier    *)
(* failing, all tiers hold the same value, or nothing, under every key     *)
(* after every put, get, contains and delete.                              *)
C26_TierAgreement ==
    sut = "tiered" =>
        \A i \in 1 .. Len(stores) : \A k \in TierKeys :
            HoldsAt(stores, i, k) = HoldsAt(stores, Len(stores), k)

(* after a delete that went through all tiers, one of them a mapped        *)
(* service, while another key stays in every tier                          *)
C26_Witness ==
    /\ sut = "tiered" /\ last.op = "delete" /\ last.exc = "none"
    /\ \E i \in 1 .. NumTiers : kinds[i] = "mapped"
    /\ \A i \in 1 .. NumTiers : HoldsAt(stores, i, last.key) = None
    /\ \E k \in TierKeys : \A i \in 1 .. NumTiers : HoldsAt(stores, i, k) = NumVals

----------------------------------------------------------------------------
(* The member at index shardingfn(key) mod n, counted from 1 *)
HomeShard(key) ==
    CHOOSE i \in 1 .. Len(stores) :
        \E q \in -NumShardKeys .. NumShardKeys : shardfn[key] = q * Len(stores) + (i - 1)

(* C27: key placement under a fixed shard count.  With shards that start   *)
(* empty and are written through the sharded store only, a key is held by  *)
(* no shard but the one at index shardingfn(k) mod n, and the sharded      *)
(* store's get(k) and contains(k) give what that shard holds under k.      *)
C27_KeyPlacement ==
    sut = "sharded" =>
        \A k \in ShardKeys :
            LET i == HomeShard(k)
            IN  /\ \A j \in 1 .. Len(stores) : j # i => HoldsAt(stores, j, k) = None
                /\ ShardedGetImpl(shardfn, kinds, stores, k, NoFault).val = HoldsAt(stores, i, k)
                /\ ShardedContainsImpl(shardfn, kinds, stores, k, NoFault).flag
                      = (HoldsAt(stores, i, k) # None)

(* every key stored, in two shards or more, one key placed by a negative   *)
(* sharding value, after a delete and a put again                          *)
C27_Witness ==
    /\ sut = "sharded" /\ last.op = "put" /\ last.exc = "none"
    /\ \A k \in ShardKeys : HoldsAt(stores, HomeShard(k), k) # None
    /\ \E k \in ShardKeys : shardfn[k] < 0
    /\ \E k1, k2 \in ShardKeys : HomeShard(k1) # HomeShard(k2)

----------------------------------------------------------------------------
(* No call is in progress on the tiered store *)
AllReturned == \A p \in Procs : inflight.calls[p].pc = "idle"

(* C28, as stated: when tiered get, put and delete calls interleave at     *)
(* single member calls, once all of them have returned no faster tier      *)
(* holds under a key a value the last tier does not hold: the promotion    *)
(* of a get re-inserts nothing that a put or delete running at the same    *)
(* time replaced or removed.  Stated for the keys on which no two writes   *)
(* have overlapped, where only a promotion can be what breaks it.          *)
C28_ConsistentUnderInterleaving ==
    (sut = "conctiered" /\ AllReturned) =>
        \A k \in TierKeys \ inflight.wraced : \A i \in 1 .. Len(stores) :
            HoldsAt(stores, i, k) # None =>
                HoldsAt(stores, i, k) = HoldsAt(stores, Len(stores), k)

(* C28, amended: the tiers agree on a key, once the calls on it have       *)
(* returned, as long as no put or delete on that key has run at the same   *)
(* time as another call on it; calls on other keys, and gets on the same   *)
(* key, may interleave with it at will.                                    *)
C28_ConsistentWhenSerializedPerKey ==
    sut = "conctiered" =>
        \A k \in TierKeys :
            (/\ k \notin inflight.raced
             /\ \A p \in Procs : inflight.calls[p].pc # "idle" /\ inflight.calls[p].key = k
                                    => inflight.calls[p].op = "get")
            => \A i \in 1 .. Len(stores) :
                   HoldsAt(stores, i, k) = HoldsAt(stores, Len(stores), k)

(* a put on one key in the middle of its loop while two callers' work on   *)
(* the other key, never overlapping a writer, left a value in every tier   *)
C28_Witness ==
    /\ sut = "conctiered"
    /\ inflight.raced = {}
    /\ \E p \in Procs, k \in TierKeys :
           /\ inflight.calls[p].op = "put" /\ inflight.calls[p].i = 2
           /\ \E q \in Procs : inflight.calls[q].op = "get" /\ inflight.calls[q].key # inflight.calls[p].key
           /\ k # inflight.calls[p].key
           /\ \A i \in 1 .. Len(stores) : HoldsAt(stores, i, k) = NumVals

----------------------------------------------------------------------------
(* The streams handed out that hold their resource still *)
OpenHandles(hs) == {i \in 1 .. Len(hs) : hs[i].s.state = "open"}

(* key is stored *)
Stored(its, key) == KeyPath(key) \in DOMAIN its /\ key \in DOMAIN its[KeyPath(key)]

(* C29: the inherited contains never leaks a stream.  A contains(k) on a   *)
(* stored key obtains one stream from get, has closed it exactly once      *)
(* (its resource released once) when it returns, and returns true; on a    *)
(* key that is not stored get raises KeyError, no stream is opened and     *)
(* contains returns false; no contains call changes the number of open     *)
(* streams, and no stream that any contains call obtained is open.         *)
C29_ContainsLeaksNoStream ==
    [][(sut = "inherit" /\ last'.op = "contains") =>
          /\ (last'.exc = "none" /\ Stored(items, last'.key)) =>
                /\ last'.flag
                /\ Len(handles') = Len(handles) + 1
                /\ \A i \in 1 .. Len(handles) : handles'[i] = handles[i]
                /\ LET h == handles'[Len(handles')]
                   IN  h.by = "contains" /\ h.s.state = "closed"
                          /\ h.s.closes = 1 /\ h.s.released = 1
          /\ (last'.exc = "none" /\ ~Stored(items, last'.key)) =>
                ~last'.flag /\ handles' = handles
          /\ last'.exc # "none" => handles' = handles
          /\ Cardinality(OpenHandles(handles')) = Cardinality(OpenHandles(handles))
          /\ \A i \in OpenHandles(handles') : handles'[i].by = "caller"]_vars

(* contains has answered true for the second time; the stream that a      *)
(* caller got from get in between is still open                            *)
C29_Witness ==
    /\ sut = "inherit" /\ last.op = "contains" /\ last.exc = "none" /\ last.flag
    /\ Len(handles) = 3
    /\ handles[1].by = "contains" /\ handles[3].by = "contains"
    /\ handles[2].by = "caller"
    /\ OpenHandles(handles) = {2}

====
